---------------------------- MODULE Spec2Model ----------------------------
(***************************************************************************)
(* Model of the NetXMS Grafana datasource backend                          *)
(* (pkg/plugin/datasource.go): the per-query-type batch handlers, the      *)
(* dynamic table shaper, the time-series shaper and the fixed-schema       *)
(* shapers.                                                                *)
(*                                                                         *)
(* JSON texts are modelled by their parse: a tagged record.  An object     *)
(* keeps its members as a sequence of key/value members in source order,   *)
(* so that the order-capturing decode and the map decode of the code are   *)
(* different functions of the same body.                                   *)
(***************************************************************************)
EXTENDS Integers, Sequences, FiniteSets, TLC

(***************************************************************************)
(* Bounds of the model.                                                    *)
(***************************************************************************)
\* Largest number of queries in one batch (len(req.Queries)).
MaxQueries == 2
\* Largest number of rows in a remote table body explored by SpecShaper.
MaxRows == 2
\* Largest status code handed to httpStatusToBackendStatus by SpecStatus.
MaxStatusCode == 700
\* Largest length of the base and of the path handed to joinURL by SpecURL.
MaxURLPart == 3
\* Largest number of query type selections explored by SpecEditor.
MaxTypeChanges == 2
\* Largest number of entries in the objects array of a remote list explored
\* entry by entry by SpecProxy.
MaxObjects == 3

(***************************************************************************)
(* JSON values.                                                            *)
(***************************************************************************)
\* Every value has the same fields, so that any two can be compared: the
\* tag t, and the payload of the tag in n (num), s (str), b (bool), e (the
\* elements of an arr) or m (the members of an obj, in source order).
JValue(tag, n, str, b, e, m) == [t |-> tag, n |-> n, s |-> str, b |-> b, e |-> e, m |-> m]
NotJSON == JValue("invalid", 0, "", FALSE, <<>>, <<>>)
JNull == JValue("null", 0, "", FALSE, <<>>, <<>>)
JNum(n) == JValue("num", n, "", FALSE, <<>>, <<>>)
JStr(str) == JValue("str", 0, str, FALSE, <<>>, <<>>)
JBool(b) == JValue("bool", 0, "", b, <<>>, <<>>)
JArr(elems) == JValue("arr", 0, "", FALSE, elems, <<>>)
\* An object, from its <<key, value>> pairs in source order.
JObj(pairs) ==
    JValue("obj", 0, "", FALSE, <<>>,
           [i \in 1..Len(pairs) |-> [k |-> pairs[i][1], val |-> pairs[i][2]]])

\* Index of the last member of an object with key k, 0 when there is none:
\* encoding/json stores members into a map or struct in source order, so a
\* later duplicate overwrites an earlier one.
LastIndexOf(members, k) ==
    LET hits == {i \in 1..Len(members) : members[i].k = k}
    IN IF hits = {} THEN 0 ELSE CHOOSE i \in hits : \A j \in hits : j <= i

HasKey(obj, k) == obj.t = "obj" /\ LastIndexOf(obj.m, k) # 0

\* obj[k] of a decoded map[string]interface{}: nil (JNull) for a missing key
\* and for a nil map.
MapGet(obj, k) ==
    IF HasKey(obj, k) THEN obj.m[LastIndexOf(obj.m, k)].val ELSE JNull

\* value.(string): the string and ok.
IsNonEmptyString(val) == val.t = "str" /\ val.s # ""

(***************************************************************************)
(* strconv and time conversions, by table.                                 *)
(***************************************************************************)
\* strconv.ParseInt(s, 10, 64) on the identifiers of the model.
ParseIntTable == ("7" :> 7) @@ ("3" :> 3) @@ ("5" :> 5) @@ ("9" :> 9) @@ ("007" :> 7)
ParseIntOk(s) == s \in DOMAIN ParseIntTable
ParseInt(s) == ParseIntTable[s]

\* strconv.ParseFloat(s, 64) on the value strings of the model.
ParseFloatTable == ("10" :> 10) @@ ("1e1" :> 10) @@ ("-3" :> -3)
ParseFloatOk(s) == s \in DOMAIN ParseFloatTable
ParseFloat(s) == ParseFloatTable[s]

\* time.Parse(time.RFC3339, s): the instant, in hours since the Unix epoch.
RFC3339Table ==
    ("2024-01-01T00:00:00Z" :> 473352) @@ ("2024-01-01T01:00:00+01:00" :> 473352)
    @@ ("2024-01-01T02:00:00Z" :> 473354)
ParseTimeOk(s) == s \in DOMAIN RFC3339Table
ParseTime(s) == RFC3339Table[s]
\* The zero time.Time (January 1, year 1, 00:00 UTC), in hours since the
\* Unix epoch.
ZeroTime == -17259888

\* int32 range of the Id, Count and Status fields.
Int32Max == 2147483647
Int32Min == -Int32Max - 1

(***************************************************************************)
(* backend.DataResponse.                                                   *)
(***************************************************************************)
\* backend.ErrDataResponse(status, message).  A message the code builds with
\* "...: %v" of an error is kept up to the colon: the text of the error is
\* the library's.
ErrDataResponse(status, message) ==
    [status |-> status, msg |-> message, frames |-> <<>>]
FramesResponse(frames) == [status |-> "OK", msg |-> "", frames |-> frames]

\* data.NewField(name, labels, values), as the handlers call it: the field
\* records the name, the labels and the slice handed in; type stands for the
\* Go type of that slice, and the field has no value mappings until Config
\* is set.  Cells are tagged values: JNum, JStr, JBool, JTime, and JNull for
\* a nil entry of an []interface{} slice.  What the SDK does with a slice
\* lies outside this source.
NewField(name, type, labels, values) ==
    [name |-> name, type |-> type, labels |-> labels, values |-> values, mappings |-> {}]
\* field.Config = &data.FieldConfig{Mappings: ...}
WithMappings(fld, mappings) == [fld EXCEPT !.mappings = mappings]
NewFrame(name, fields) == [name |-> name, fields |-> fields]
\* No labels (nil).
NoLabels == {}
\* A time.Time cell, in hours since the Unix epoch.
JTime(hours) == JValue("time", hours, "", FALSE, <<>>, <<>>)

\* httpStatusToBackendStatus with 600 counted among the server errors
\* (code <= 600).
httpStatusToBackendStatusUpTo600(code) ==
    IF code = 400 THEN "BadRequest"
    ELSE IF code = 401 THEN "Unauthorized"
    ELSE IF code = 403 THEN "Forbidden"
    ELSE IF code = 404 THEN "NotFound"
    ELSE IF code >= 500 /\ code <= 600 THEN "Internal"
    ELSE "Unknown"

\* httpStatusToBackendStatus
httpStatusToBackendStatus(code) ==
    IF code = 400 THEN "BadRequest"
    ELSE IF code = 401 THEN "Unauthorized"
    ELSE IF code = 403 THEN "Forbidden"
    ELSE IF code = 404 THEN "NotFound"
    ELSE IF code >= 500 /\ code < 600 THEN "Internal"
    ELSE "Unknown"


(***************************************************************************)
(* encoding/json decoding into the typed targets of the code.              *)
(***************************************************************************)
\* Whether one JSON value can be stored into a struct field of the kind.
\* null is accepted by every field (it leaves the field as it is).
ValueFits(val, kind) ==
    \/ val.t = "null"
    \/ kind = "string" /\ val.t = "str"
    \/ kind = "int32" /\ val.t = "num" /\ val.n >= Int32Min /\ val.n <= Int32Max
    \/ kind = "time" /\ val.t = "str" /\ ParseTimeOk(val.s)

\* Every member of elem named key fits the field (elem is an object or null).
FieldFits(elem, key, kind) ==
    elem.t = "obj" =>
        \A i \in 1..Len(elem.m) : elem.m[i].k = key => ValueFits(elem.m[i].val, kind)

\* The value a struct field holds after decoding elem: the last non-null
\* member named key, JNull (the zero value) when there is none.
StructGet(elem, key) ==
    IF elem.t # "obj" THEN JNull
    ELSE LET hits == {i \in 1..Len(elem.m) :
                        elem.m[i].k = key /\ elem.m[i].val.t # "null"}
         IN IF hits = {} THEN JNull
            ELSE elem.m[CHOOSE i \in hits : \A j \in hits : j <= i].val

StringField(elem, key) ==
    LET val == StructGet(elem, key) IN IF val.t = "str" THEN val.s ELSE ""
IntField(elem, key) ==
    LET val == StructGet(elem, key) IN IF val.t = "num" THEN val.n ELSE 0
TimeField(elem, key) ==
    LET val == StructGet(elem, key) IN IF val.t = "str" THEN ParseTime(val.s) ELSE ZeroTime

\* json.Unmarshal(body, &slice of structs or maps): body is an array or null,
\* every element an object or null.
IsArrayOfObjects(body) ==
    \/ body.t = "null"
    \/ body.t = "arr" /\ \A i \in 1..Len(body.e) : body.e[i].t \in {"obj", "null"}
Elements(body) == IF body.t = "arr" THEN body.e ELSE <<>>

\* type queryModel, json.Unmarshal(q.JSON, &qm).
queryModelFields == <<"sourceObjectId", "dciId">>
queryModelDecodes(json) ==
    /\ json.t \in {"obj", "null"}
    /\ \A i \in 1..Len(queryModelFields) : FieldFits(json, queryModelFields[i], "string")
queryModel(json) ==
    [SourceObjectId |-> StringField(json, "sourceObjectId"),
     DciId |-> StringField(json, "dciId")]

\* Mutant of queryMapDecodes: the error of json.Unmarshal is dropped, every
\* text counts as decoded.
queryMapDecodesUnchecked(json) == TRUE

\* var qm map[string]interface{}; json.Unmarshal(q.JSON, &qm).
queryMapDecodes(json) == json.t \in {"obj", "null"}

\* var reasonResp map[string]string; json.Unmarshal(body, &reasonResp).
reasonRespDecodes(body) ==
    \/ body.t = "null"
    \/ body.t = "obj" /\ \A i \in 1..Len(body.m) : body.m[i].val.t \in {"str", "null"}
reasonOf(body) ==
    LET val == MapGet(body, "reason") IN IF val.t = "str" THEN val.s ELSE ""

\* The answer to a status other than 200 and 401.
requestErrorResponse(code, body) ==
    IF reasonRespDecodes(body)
    THEN ErrDataResponse(httpStatusToBackendStatus(code), "Request error: " \o reasonOf(body))
    ELSE ErrDataResponse(httpStatusToBackendStatus(code), "Request error")

unauthorizedResponse == ErrDataResponse("Unauthorized", "Unauthorized: Invalid API key")

(***************************************************************************)
(* The dynamic table shaper (handleTableQuery, after the status checks).   *)
(***************************************************************************)
RECURSIVE JoinFormatted(_, _)
RECURSIVE FormatV(_)
\* fmt.Sprintf("%v", v) of a decoded JSON value: a string as it is, a
\* float64 in its shortest form (integers below 10^6 print as integers), a
\* bool as true/false, nil as <nil>, a slice as its elements between
\* brackets.  Nested objects are outside the cell values of the model.
FormatV(val) ==
    CASE val.t = "str" -> val.s
      [] val.t = "num" -> ToString(val.n)
      [] val.t = "bool" -> IF val.b THEN "true" ELSE "false"
      [] val.t = "null" -> "<nil>"
      [] val.t = "arr" -> "[" \o JoinFormatted(val.e, 1) \o "]"
JoinFormatted(elems, i) ==
    IF i > Len(elems) THEN ""
    ELSE FormatV(elems[i]) \o (IF i < Len(elems) THEN " " ELSE "")
           \o JoinFormatted(elems, i + 1)

\* decodeOrderedJSON(firstObject).keys: ok iff the first element is an
\* object; the keys in source order, duplicates kept.
decodeOrderedJSONOk(first) == first.t = "obj"
\* Mutant of decodeOrderedJSONKeys: the keys are ranged over from the map,
\* which yields them in another order than the source (here the reverse).
decodeOrderedJSONKeysFromMap(first) ==
    [i \in 1..Len(first.m) |-> first.m[Len(first.m) + 1 - i].k]

decodeOrderedJSONKeys(first) == [i \in 1..Len(first.m) |-> first.m[i].k]

\* The value stored into columnValues[columnName][i] for row[columnName].
columnValue(val) ==
    CASE val.t = "null" -> JNull
      [] val.t = "str" -> val
      [] val.t = "num" -> val
      [] val.t = "bool" -> val
      [] val.t = "arr" -> JStr(FormatV(val))
      [] OTHER -> JStr(FormatV(val))

\* Mutant of columnValues: a row without a value for the column is skipped
\* instead of leaving a nil entry.
columnValuesSkippingNil(rows, columnName) ==
    LET present(val) == val.t # "null"
    IN SelectSeq([i \in 1..Len(rows) |-> columnValue(MapGet(rows[i], columnName))], present)

columnValues(rows, columnName) ==
    [i \in 1..Len(rows) |-> columnValue(MapGet(rows[i], columnName))]

\* The field built for one column from its values: the type is read from
\* values[0] alone.  A float64 ("number") or bool ("boolean") column hands
\* the []interface{} slice itself to data.NewField, nil entries included;
\* every other column is rendered to a []string.
tableField(columnName, values) ==
    IF Len(values) > 0 /\ values[1].t # "null"
    THEN IF values[1].t = "num"
         THEN NewField(columnName, "number", NoLabels, values)
         ELSE IF values[1].t = "bool"
         THEN NewField(columnName, "boolean", NoLabels, values)
         ELSE NewField(columnName, "string", NoLabels,
                       [i \in 1..Len(values) |->
                          IF values[i].t = "null" THEN JStr("") ELSE JStr(FormatV(values[i]))])
    ELSE NewField(columnName, "string", NoLabels, [i \in 1..Len(values) |-> JStr("")])

\* Lines 702-795: the response recorded for a 200 body.
shapeTable(body, frameName) ==
    IF ~IsArrayOfObjects(body)
    THEN ErrDataResponse("BadRequest", "failed to parse response")
    ELSE LET tableResponse == Elements(body) IN
         IF Len(tableResponse) > 0
         THEN IF body.t # "arr"
              THEN ErrDataResponse("BadRequest", "expected array")
              ELSE IF Len(body.e) = 0
              THEN ErrDataResponse("BadRequest", "empty array")
              ELSE IF ~decodeOrderedJSONOk(body.e[1])
              THEN ErrDataResponse("BadRequest", "failed to parse first row")
              ELSE LET keys == decodeOrderedJSONKeys(body.e[1]) IN
                   FramesResponse(<<NewFrame(frameName,
                       [c \in 1..Len(keys) |->
                          tableField(keys[c], columnValues(tableResponse, keys[c]))])>>)
         ELSE FramesResponse(<<NewFrame(frameName, <<>>)>>)

(***************************************************************************)
(* The alarms shaper (query, lines 187-257).                               *)
(***************************************************************************)
\* type alarmResponse: the JSON name and the kind of each field.
alarmFields ==
    << <<"Id", "int32">>, <<"Severity", "string">>, <<"State", "string">>,
       <<"Source", "string">>, <<"Message", "string">>, <<"Count", "int32">>,
       <<"Ack/Resolve by", "string">>, <<"Created", "time">>,
       <<"Last Change", "time">> >>

\* json.Unmarshal(body, &alarms) succeeds.
alarmsDecode(body) ==
    /\ IsArrayOfObjects(body)
    /\ \A i \in 1..Len(Elements(body)) : \A f \in 1..Len(alarmFields) :
          FieldFits(Elements(body)[i], alarmFields[f][1], alarmFields[f][2])

\* One entry of a data.ValueMapper.
Mapping(value, colour) == [value |-> value, text |-> value, color |-> colour]

severityMappings ==
    { Mapping("Normal", "rgb(0, 137, 0)"), Mapping("Warning", "rgb(0, 142, 145)"),
      Mapping("Minor", "rgb(201, 198, 0)"), Mapping("Major", "rgb(223, 102, 0)"),
      Mapping("Critical", "rgb(160, 0, 0)"), Mapping("Unknown", "rgb(33, 33, 248)"),
      Mapping("Unmanaged", "rgb(113, 113, 113)"), Mapping("Disabled", "rgb(100, 41, 0)"),
      Mapping("Testing", "rgb(138, 0, 143)") }
stateMappings ==
    { Mapping("Outstanding", "yellow"), Mapping("Acknowledged", "greenyellow"),
      Mapping("Resolved", "green") }

\* The cell of one alarm record in the column of field f.
alarmCell(alarm, f) ==
    CASE alarmFields[f][2] = "int32" -> JNum(IntField(alarm, alarmFields[f][1]))
      [] alarmFields[f][2] = "string" -> JStr(StringField(alarm, alarmFields[f][1]))
      [] alarmFields[f][2] = "time" -> JTime(TimeField(alarm, alarmFields[f][1]))

\* alarmField with a mapping entry made for every value of the column.
alarmFieldMappingSeen(alarms, f) ==
    LET fld == NewField(alarmFields[f][1], alarmFields[f][2], NoLabels,
                        [i \in 1..Len(alarms) |-> alarmCell(alarms[i], f)])
        seen == {Mapping(alarmCell(alarms[i], f).s, "grey") : i \in 1..Len(alarms)}
    IN IF alarmFields[f][1] = "Severity"
       THEN WithMappings(fld, severityMappings \cup seen)
       ELSE IF alarmFields[f][1] = "State"
       THEN WithMappings(fld, stateMappings \cup seen)
       ELSE fld

\* alarmField with the loop of lines 204-214 filling the slices from the
\* far end (slice[len-1-i] = alarm.X).
alarmFieldReversed(alarms, f) ==
    LET fld == NewField(alarmFields[f][1], alarmFields[f][2], NoLabels,
                        [i \in 1..Len(alarms) |->
                            alarmCell(alarms[Len(alarms) + 1 - i], f)])
    IN IF alarmFields[f][1] = "Severity" THEN WithMappings(fld, severityMappings)
       ELSE IF alarmFields[f][1] = "State" THEN WithMappings(fld, stateMappings)
       ELSE fld

\* The field of column f over the alarms, with the mappings of lines 216-241.
alarmField(alarms, f) ==
    LET fld == NewField(alarmFields[f][1], alarmFields[f][2], NoLabels,
                        [i \in 1..Len(alarms) |-> alarmCell(alarms[i], f)])
    IN IF alarmFields[f][1] = "Severity" THEN WithMappings(fld, severityMappings)
       ELSE IF alarmFields[f][1] = "State" THEN WithMappings(fld, stateMappings)
       ELSE fld

alarmsFrame(alarms) ==
    NewFrame("alarms", [f \in 1..Len(alarmFields) |-> alarmField(alarms, f)])

\* Lines 175-257: the response for a body that was read.
alarmsShape(code, body) ==
    IF code = 401 THEN unauthorizedResponse
    ELSE IF code # 200 THEN requestErrorResponse(code, body)
    ELSE IF ~alarmsDecode(body)
    THEN ErrDataResponse("BadRequest", "failed to parse response")
    ELSE FramesResponse(<<alarmsFrame(Elements(body))>>)

\* Lines 141-156: the request body of the alarms call; ok is false when
\* rootObjectId is not a base-10 integer.
alarmsBodyOk(rootObjectId) == rootObjectId = "" \/ ParseIntOk(rootObjectId)
alarmsBody(rootObjectId) ==
    IF rootObjectId # ""
    THEN JObj(<< <<"rootObjectId", JNum(ParseInt(rootObjectId))>> >>)
    ELSE JObj(<<>>)

(***************************************************************************)
(* The time-series shaper (handleDciValues, lines 542-576).                *)
(***************************************************************************)
\* json.Unmarshal(body, &dciData) succeeds: an object (or null) whose
\* description and unitName are strings and whose values is an array of
\* objects with string timestamp and value.
dciValueResponseDecodes(body) ==
    /\ body.t \in {"obj", "null"}
    /\ FieldFits(body, "description", "string")
    /\ FieldFits(body, "unitName", "string")
    /\ body.t = "obj" =>
          \A j \in 1..Len(body.m) : body.m[j].k = "values" =>
             /\ IsArrayOfObjects(body.m[j].val)
             /\ \A i \in 1..Len(Elements(body.m[j].val)) :
                   /\ FieldFits(Elements(body.m[j].val)[i], "timestamp", "string")
                   /\ FieldFits(Elements(body.m[j].val)[i], "value", "string")

dciValues(body) == Elements(StructGet(body, "values"))

\* One pass of the row loop (lines 553-567) over row i: the error it records
\* for the refId, "none" when both parses succeed.
dciRowError(row) ==
    IF ~ParseTimeOk(StringField(row, "timestamp"))
    THEN ErrDataResponse("BadRequest", "failed to parse timestamp")
    ELSE IF ~ParseFloatOk(StringField(row, "value"))
    THEN ErrDataResponse("BadRequest", "failed to parse value")
    ELSE ErrDataResponse("none", "")

\* times[i] and values[i] after the row loop: an entry the loop skipped
\* keeps its zero value.
dciTime(row) ==
    IF ParseTimeOk(StringField(row, "timestamp"))
    THEN ParseTime(StringField(row, "timestamp")) ELSE ZeroTime
dciValue(row) ==
    IF ParseTimeOk(StringField(row, "timestamp")) /\ ParseFloatOk(StringField(row, "value"))
    THEN ParseFloat(StringField(row, "value")) ELSE 0

dciFrame(body) ==
    LET rows == dciValues(body) IN
    NewFrame(StringField(body, "description"),
        << NewField("time", "time", NoLabels, [i \in 1..Len(rows) |-> JTime(dciTime(rows[i]))]),
           NewField("value", "float64", {[k |-> "unit", v |-> StringField(body, "unitName")]},
                    [i \in 1..Len(rows) |-> JNum(dciValue(rows[i]))]) >>)

(***************************************************************************)
(* The object-status shaper (handleObjectStatusQuery, lines 945-982).      *)
(***************************************************************************)
statusDataDecodes(body) ==
    /\ IsArrayOfObjects(body)
    /\ \A i \in 1..Len(Elements(body)) :
          /\ FieldFits(Elements(body)[i], "Name", "string")
          /\ FieldFits(Elements(body)[i], "Status", "int32")

\* color := []string{...}: the palette, indexed from 0 in the code.
color ==
    << "rgb(0, 137, 0)", "rgb(0, 142, 145)", "rgb(201, 198, 0)",
       "rgb(223, 102, 0)", "rgb(160, 0, 0)", "rgb(33, 33, 248)",
       "rgb(113, 113, 113)", "rgb(100, 41, 0)", "rgb(138, 0, 143)" >>

\* color[obj.Status] is inside the slice.
colorIndexInRange(status) == status >= 0 /\ status < Len(color)

\* The loop of lines 964-978 runs to its end: no index is out of range.
statusFramesBuilt(statusData) ==
    \A i \in 1..Len(statusData) : colorIndexInRange(IntField(statusData[i], "Status"))

statusFrame(obj) ==
    NewFrame(StringField(obj, "Name"),
        << WithMappings(NewField("Name", "string", NoLabels, <<JStr(StringField(obj, "Name"))>>),
                        {Mapping(StringField(obj, "Name"), color[IntField(obj, "Status") + 1])}) >>)

\* statusFrames with the frames prepended to the result instead of appended.
statusFramesPrepended(statusData) ==
    [i \in 1..Len(statusData) |-> statusFrame(statusData[Len(statusData) + 1 - i])]

statusFrames(statusData) == [i \in 1..Len(statusData) |-> statusFrame(statusData[i])]

(***************************************************************************)
(* encoding/json: decoding into interface{} and json.Marshal of the result.*)
(***************************************************************************)
\* The place of a string in the byte-wise order of Go's < on strings, for
\* the names and keys of the model: upper case comes before lower case, a
\* prefix before its extensions.
OrdinalRank ==
    ("" :> 0) @@ ("B" :> 1) @@ ("a" :> 2) @@ ("ab" :> 3) @@ ("b" :> 4) @@ ("id" :> 5)
    @@ ("key" :> 6) @@ ("name" :> 7) @@ ("objects" :> 8) @@ ("total" :> 9)
    @@ ("value" :> 10)
StringLess(x, y) == OrdinalRank[x] < OrdinalRank[y]

\* A number outside the integers of the model, kept by its literal.
JBigNum(literal) == JValue("num", 0, literal, FALSE, <<>>, <<>>)

\* The float64 nearest to a number, by its literal: every integer of the
\* model is a float64; beyond 2^53 only every second integer is one.
Float64Table == ("9007199254740993" :> "9007199254740992")
float64Of(val) ==
    IF val.s \in DOMAIN Float64Table THEN JBigNum(Float64Table[val.s]) ELSE val

RECURSIVE DecodeInterface(_)
\* json.Unmarshal into interface{} (and into map[string]interface{}): every
\* number becomes a float64.
DecodeInterface(val) ==
    CASE val.t = "num" -> float64Of(val)
      [] val.t = "arr" -> JArr([i \in 1..Len(val.e) |-> DecodeInterface(val.e[i])])
      [] val.t = "obj" ->
           JValue("obj", 0, "", FALSE, <<>>,
                  [i \in 1..Len(val.m) |->
                      [k |-> val.m[i].k, val |-> DecodeInterface(val.m[i].val)]])
      [] OTHER -> val

RECURSIVE SortKeys(_)
\* The keys of a map in the order json.Marshal writes them: sorted.
SortKeys(keys) ==
    IF keys = {} THEN <<>>
    ELSE LET first == CHOOSE k \in keys : \A j \in keys : OrdinalRank[k] <= OrdinalRank[j]
         IN <<first>> \o SortKeys(keys \ {first})

RECURSIVE Marshal(_)
\* json.Marshal of a value json.Unmarshal decoded into interface{}: a map
\* holds each key once (the last of the source) and is written with its keys
\* sorted; layout and key order of the source are not kept.
Marshal(val) ==
    CASE val.t = "obj" ->
           LET keys == SortKeys({val.m[i].k : i \in 1..Len(val.m)})
           IN JValue("obj", 0, "", FALSE, <<>>,
                     [i \in 1..Len(keys) |-> [k |-> keys[i], val |-> Marshal(MapGet(val, keys[i]))]])
      [] val.t = "arr" -> JArr([i \in 1..Len(val.e) |-> Marshal(val.e[i])])
      [] OTHER -> val

(***************************************************************************)
(* Request bodies of the table queries (formatBody) and of objectStatus.   *)
(***************************************************************************)
\* The text of queryParameters, parsed: json.Unmarshal([]byte(values), ...).
JSONTextTable ==
    ("[{\"key\":\"k\",\"value\":\"v\"}]" :>
        JArr(<<JObj(<< <<"key", JStr("k")>>, <<"value", JStr("v")>> >>)>>))
    @@ ("[]" :> JArr(<<>>)) @@ ("null" :> JNull)
    @@ ("{\"key\":\"k\"}" :> JObj(<< <<"key", JStr("k")>> >>))
    @@ ("[{\"value\":\"1\",\"key\":\"b\"},{\"key\":\"a\",\"value\":2}]" :>
          JArr(<<JObj(<< <<"value", JStr("1")>>, <<"key", JStr("b")>> >>),
                 JObj(<< <<"key", JStr("a")>>, <<"value", JNum(2)>> >>)>>))
    @@ ("[{\"key\":\"id\",\"value\":9007199254740993}]" :>
          JArr(<<JObj(<< <<"key", JStr("id")>>,
                         <<"value", JBigNum("9007199254740993")>> >>)>>))
ParseJSONText(text) == IF text \in DOMAIN JSONTextTable THEN JSONTextTable[text] ELSE NotJSON

\* One optional integer member of reqBody: present when qm[field] is a
\* non-empty string that parses as a base-10 integer.
intMember(qm, field, name) ==
    IF IsNonEmptyString(MapGet(qm, field)) /\ ParseIntOk(MapGet(qm, field).s)
    THEN << <<name, JNum(ParseInt(MapGet(qm, field).s))>> >>
    ELSE <<>>

\* handleSummaryTableQuery.formatBody; json.Marshal writes the keys of the
\* map in sorted order.
summaryTableBody(qm) ==
    JObj(intMember(qm, "sourceObjectId", "rootObjectId")
         \o intMember(qm, "summaryTableId", "tableId"))

\* handleObjectQueryQuery.formatBody, and json.Marshal(reqBody) of line 660:
\* parsedValues is a []map[string]interface{}.
objectQueryBody(qm) ==
    JObj(intMember(qm, "objectQueryId", "queryId")
         \o intMember(qm, "sourceObjectId", "rootObjectId")
         \o (IF /\ IsNonEmptyString(MapGet(qm, "queryParameters"))
                /\ IsArrayOfObjects(ParseJSONText(MapGet(qm, "queryParameters").s))
             THEN << <<"values",
                       Marshal(DecodeInterface(ParseJSONText(MapGet(qm, "queryParameters").s)))>> >>
             ELSE <<>>))

\* Lines 894-900.
objectStatusBody(sourceObjectId) ==
    IF sourceObjectId # "" /\ ParseIntOk(sourceObjectId)
    THEN JObj(<< <<"rootObjectId", JNum(ParseInt(sourceObjectId))>> >>)
    ELSE JObj(<<>>)

\* tableQueryConfig of the two table handlers: required maps a field of the
\* query to the message of its absence.
summaryTableConfig ==
    [url |-> "/v1/grafana/infinity/summary-table", frameName |-> "summary-table",
     required |-> ("summaryTableId" :> "tableId is required")]
objectQueryConfig ==
    [url |-> "/v1/grafana/infinity/object-query", frameName |-> "object-query",
     required |-> ("objectQueryId" :> "queryId is required")
                  @@ ("sourceObjectId" :> "rootObjectId is required")]

(***************************************************************************)
(* isVersionGreater (lines 261-284).                                       *)
(***************************************************************************)
\* strings.Split(version, "."), on the version strings of the model.
SplitTable ==
    ("5.2.4" :> <<"5", "2", "4">>) @@ ("5.2.10" :> <<"5", "2", "10">>)
    @@ ("5.1.9" :> <<"5", "1", "9">>) @@ ("5" :> <<"5">>)
    @@ ("4.9.9" :> <<"4", "9", "9">>) @@ ("5.2" :> <<"5", "2">>)
    @@ ("5.2.4.0" :> <<"5", "2", "4", "0">>) @@ ("5.2.4.1" :> <<"5", "2", "4", "1">>)
    @@ ("5.x.4" :> <<"5", "x", "4">>) @@ ("" :> <<"">>)
    @@ ("6.0" :> <<"6", "0">>) @@ ("5.2.-1" :> <<"5", "2", "-1">>)
    @@ ("5.02.4" :> <<"5", "02", "4">>)
VersionStrings == DOMAIN SplitTable
Split(version) == SplitTable[version]

\* n, _ = strconv.Atoi(segment): the number of a decimal segment (a sign and
\* leading zeros are accepted), 0 when Atoi returns a syntax error.
AtoiTable ==
    ("0" :> 0) @@ ("1" :> 1) @@ ("2" :> 2) @@ ("4" :> 4) @@ ("5" :> 5) @@ ("6" :> 6)
    @@ ("9" :> 9) @@ ("10" :> 10) @@ ("02" :> 2) @@ ("-1" :> -1)
Atoi(segment) == IF segment \in DOMAIN AtoiTable THEN AtoiTable[segment] ELSE 0

RECURSIVE versionLoop(_, _, _, _)
\* The loop of lines 268-283, i counted from 1.
versionLoop(actualVersionParts, requiredVersionParts, i, maxLen) ==
    IF i > maxLen THEN TRUE
    ELSE LET actualVersionNum ==
                 IF i <= Len(actualVersionParts) THEN Atoi(actualVersionParts[i]) ELSE 0
             requiredVersionNum ==
                 IF i <= Len(requiredVersionParts) THEN Atoi(requiredVersionParts[i]) ELSE 0
         IN IF actualVersionNum > requiredVersionNum THEN TRUE
            ELSE IF actualVersionNum < requiredVersionNum THEN FALSE
            ELSE versionLoop(actualVersionParts, requiredVersionParts, i + 1, maxLen)

\* Mutant of isVersionGreater: maxLen stays len(actualVersionParts), the
\* segments the required version has beyond it are not compared.
isVersionGreaterUnpadded(actualVersion, requireVersion) ==
    versionLoop(Split(actualVersion), Split(requireVersion), 1, Len(Split(actualVersion)))

isVersionGreater(actualVersion, requireVersion) ==
    LET actualVersionParts == Split(actualVersion)
        requiredVersionParts == Split(requireVersion)
        maxLen == IF Len(requiredVersionParts) > Len(actualVersionParts)
                  THEN Len(requiredVersionParts) ELSE Len(actualVersionParts)
    IN versionLoop(actualVersionParts, requiredVersionParts, 1, maxLen)

(***************************************************************************)
(* CheckHealth (lines 290-362).                                            *)
(***************************************************************************)
\* backend.CheckHealthResult.
HealthResult(status, message) == [status |-> status, message |-> message]
NoHealthResult == HealthResult("", "")

\* What models.LoadPluginSettings returned: whether it loaded, and the
\* fields of the configuration CheckHealth reads.
PluginSettings(loaded, apiKey, serverAddress) ==
    [loaded |-> loaded, ApiKey |-> apiKey, ServerAddress |-> serverAddress]

\* http.NewRequest("GET", statusURL, nil) succeeds: the URL parses.  ":bad"
\* stands for a server address whose URL has no scheme.
NewRequestOk(serverAddress) == serverAddress # ":bad"

requiredVersion == "5.2.4"

\* Mutant of healthPrecheck: the server address is looked at before the API
\* key.
healthPrecheckAddressFirst(config) ==
    IF ~config.loaded THEN HealthResult("Error", "Unable to load settings")
    ELSE IF config.ServerAddress = "" THEN HealthResult("Error", "Server address is missing")
    ELSE IF config.ApiKey = "" THEN HealthResult("Error", "API key is missing")
    ELSE NoHealthResult

\* Lines 292-310: the result CheckHealth returns before it builds a request,
\* NoHealthResult when it goes on.
healthPrecheck(config) ==
    IF ~config.loaded THEN HealthResult("Error", "Unable to load settings")
    ELSE IF config.ApiKey = "" THEN HealthResult("Error", "API key is missing")
    ELSE IF config.ServerAddress = "" THEN HealthResult("Error", "Server address is missing")
    ELSE NoHealthResult

\* data["version"].(string) of line 349 does not panic: the value is a
\* string.  data is the map json.Unmarshal filled (its error is dropped), nil
\* when the body is no JSON object.
versionIsString(body) == MapGet(body, "version").t = "str"

\* The outcome of CheckHealth: the result it returns, whether client.Do was
\* called, and whether it panicked instead of returning.
HealthOutcome(result, called, panicked) ==
    [result |-> result, called |-> called, panic |-> panicked]

\* Lines 326-361: from client.Do on.  A version outside the strings of the
\* model does not occur in the bodies of the model.
healthAnswer(o) ==
    CASE o.kind = "transport" ->
           HealthOutcome(HealthResult("Error", "Failed to connect to server"), TRUE, FALSE)
      [] o.kind = "read" ->
           HealthOutcome(HealthResult("Error", "failed read response: " \o ToString(o.code)),
                         TRUE, FALSE)
      [] o.code # 200 ->
           HealthOutcome(HealthResult("Error", "Server returned status code: "
                                                 \o ToString(o.code)), TRUE, FALSE)
      [] ~versionIsString(o.body) ->
           \* interface conversion: a run-time panic.
           HealthOutcome(NoHealthResult, TRUE, TRUE)
      [] ~isVersionGreater(MapGet(o.body, "version").s, requiredVersion) ->
           HealthOutcome(HealthResult("Error", "Server version (current: "
                            \o MapGet(o.body, "version").s
                            \o ") should be greater than " \o requiredVersion), TRUE, FALSE)
      [] OTHER -> HealthOutcome(HealthResult("OK", "Data source is working"), TRUE, FALSE)

\* CheckHealth.
checkHealth(config, o) ==
    IF healthPrecheck(config) # NoHealthResult
    THEN HealthOutcome(healthPrecheck(config), FALSE, FALSE)
    ELSE IF ~NewRequestOk(config.ServerAddress)
    THEN HealthOutcome(HealthResult("Error", "Failed to create request"), FALSE, FALSE)
    ELSE healthAnswer(o)

(***************************************************************************)
(* The list proxy (handleQuery, lines 369-460).                            *)
(***************************************************************************)
\* The less function of lines 438-445 on two entries of jsonData.
nameLess(x, y) ==
    LET nameI == MapGet(x, "name")
        nameJ == MapGet(y, "name")
    IN IF nameI.t # "str" \/ nameJ.t # "str" THEN FALSE ELSE StringLess(nameI.s, nameJ.s)

\* sort.Slice sorts a slice of at most this many elements by insertion.
maxInsertion == 12

RECURSIVE insertSorted(_, _)
\* One pass of insertion sort: x moves left past every entry it is less than.
insertSorted(sorted, x) ==
    IF sorted # <<>> /\ nameLess(x, sorted[Len(sorted)])
    THEN Append(insertSorted(SubSeq(sorted, 1, Len(sorted) - 1), x), sorted[Len(sorted)])
    ELSE Append(sorted, x)

RECURSIVE insertionSort(_, _)
\* The first i entries of data, sorted by insertion.
insertionSort(data, i) ==
    IF i = 0 THEN <<>> ELSE insertSorted(insertionSort(data, i - 1), data[i])

\* Two neighbours of which neither is less than the other.
EqualNeighbours(data, i) == ~nameLess(data[i], data[i + 1]) /\ ~nameLess(data[i + 1], data[i])
SwapNeighbours(data, i) ==
    [j \in 1..Len(data) |-> IF j = i THEN data[i + 1] ELSE IF j = i + 1 THEN data[i] ELSE data[j]]

\* sort.Slice(jsonData, less): what the slice can hold afterwards.  Up to
\* maxInsertion entries are sorted by insertion, which moves no entry past an
\* equal one.  A longer slice is sorted by a quicksort that sort.Slice
\* documents as not stable: equal entries may come out in another order.
sortSlice(data) ==
    LET inserted == insertionSort(data, Len(data)) IN
    IF Len(data) <= maxInsertion THEN {inserted}
    ELSE {inserted} \cup {SwapNeighbours(inserted, i) :
                             i \in {j \in 1..(Len(inserted) - 1) : EqualNeighbours(inserted, j)}}

\* What handleQuery writes to the caller: a status, and either the text of
\* http.Error or a body.
ProxyResponse(status, text, body) == [status |-> status, text |-> text, body |-> body]
httpError(text, code) == ProxyResponse(code, text, NotJSON)
NoProxyResponse == ProxyResponse(0, "", NotJSON)

\* Lines 404-435: the body is taken to be a list: it decodes into a map,
\* its objects member is an array, and every element of it is a map.
isObjectList(body) ==
    /\ body.t = "obj"
    /\ MapGet(body, "objects").t = "arr"
    /\ \A i \in 1..Len(MapGet(body, "objects").e) : MapGet(body, "objects").e[i].t = "obj"

\* responseData["objects"] = jsonData.
withObjects(body, jsonData) ==
    JValue("obj", 0, "", FALSE, <<>>, Append(body.m, [k |-> "objects", val |-> JArr(jsonData)]))

\* Lines 403-459: the answer to a body that was read; sorted is what
\* sort.Slice left in jsonData.  The status code of the remote is not looked
\* at.
listResponse(body, sorted) ==
    IF ~isObjectList(body) THEN ProxyResponse(200, "", body)
    ELSE ProxyResponse(200, "", Marshal(withObjects(body, sorted)))

\* proxyAnswer with a status check after io.ReadAll, as the query handlers
\* have one.
proxyAnswerPropagating(o, sorted) ==
    CASE o.kind = "transport" -> httpError("failed to connect to server", 500)
      [] o.kind = "read" -> httpError("failed read response", 500)
      [] o.code # 200 -> httpError("Request error", o.code)
      [] OTHER -> listResponse(o.body, sorted)

\* handleQuery, from client.Do on.
proxyAnswer(o, sorted) ==
    CASE o.kind = "transport" -> httpError("failed to connect to server", 500)
      [] o.kind = "read" -> httpError("failed read response", 500)
      [] OTHER -> listResponse(o.body, sorted)

\* The slice handed to sort.Slice for a body, empty when the body is passed
\* through.
jsonDataOf(body) == IF isObjectList(body) THEN MapGet(body, "objects").e ELSE <<>>

(***************************************************************************)
(* joinURL (lines 1008-1012).  A string is the sequence of its characters. *)
(***************************************************************************)
\* strings.TrimRight(str, cutset): str without its trailing characters that
\* are in cutset.
RECURSIVE TrimRight(_, _)
TrimRight(str, cutset) ==
    IF str # <<>> /\ str[Len(str)] \in cutset
    THEN TrimRight(SubSeq(str, 1, Len(str) - 1), cutset)
    ELSE str

\* strings.TrimLeft(str, cutset).
RECURSIVE TrimLeft(_, _)
TrimLeft(str, cutset) ==
    IF str # <<>> /\ Head(str) \in cutset THEN TrimLeft(Tail(str), cutset) ELSE str

\* joinURL with the path taken as it is.
joinURLPathUntrimmed(base, path) == TrimRight(base, {"/"}) \o <<"/">> \o path

joinURL(base, path) == TrimRight(base, {"/"}) \o <<"/">> \o TrimLeft(path, {"/"})

(***************************************************************************)
(* DataSource.filterQuery of the frontend (datasource.ts, lines 43-81).    *)
(***************************************************************************)
\* An optional string property of a NetXMSQuery: undefined, or a string.
Undefined == [defined |-> FALSE, str |-> ""]
Str(str) == [defined |-> TRUE, str |-> str]
\* The truth of a value in a condition: undefined and "" are false.
Truthy(val) == val.defined /\ val.str # ""
\* JSON.parse(text) does not throw.
JSONParses(text) == ParseJSONText(text) # NotJSON

filterQuery(query) ==
    IF ~Truthy(query.queryType) THEN FALSE
    ELSE CASE query.queryType.str = "alarms" -> TRUE
           [] query.queryType.str = "dciValues" ->
                Truthy(query.sourceObjectId) /\ Truthy(query.dciId)
           [] query.queryType.str = "summaryTables" ->
                Truthy(query.sourceObjectId) /\ Truthy(query.summaryTableId)
           [] query.queryType.str = "objectQueries" ->
                IF ~Truthy(query.objectQueryId) THEN FALSE
                ELSE IF Truthy(query.queryParameters)
                        /\ ~JSONParses(query.queryParameters.str)
                THEN FALSE
                ELSE TRUE
           [] query.queryType.str = "objectStatus" -> Truthy(query.sourceObjectId)
           [] OTHER -> FALSE

(***************************************************************************)
(* The query editor of the frontend (QueryEditor, part_001).               *)
(***************************************************************************)
\* The object list loadObjectList(type) asks for, by the getter it calls;
\* "none" for a type outside the switch (lines 32-47).
ObjectListOf(type) ==
    CASE type = "alarms" -> "getAlarmObjectList"
      [] type \in {"objectStatus", "summaryTables"} -> "getSummaryTableObjectList"
      [] type = "objectQueries" -> "getObjectQueryObjectList"
      [] type = "dciValues" -> "getDciObjectList"
      [] OTHER -> "none"

\* The argument the switches of useEffect and onTypeChange hand to
\* loadObjectList for a query type (lines 91-112, 177-195).
LoadArgument(queryType) ==
    IF queryType = "objectStatus" THEN "summaryTables" ELSE queryType

\* loadObjectList(type) up to its await: isLoadingObjects is set, and the
\* request is in flight; for a type outside the switch the function returns
\* through finally.
loadObjectList(ed, type) ==
    IF ObjectListOf(type) = "none"
    THEN [ed EXCEPT !.isLoadingObjects = FALSE]
    ELSE [ed EXCEPT !.isLoadingObjects = TRUE,
                    !.inflight = @ \cup {[id |-> ed.nextId, list |-> ObjectListOf(type)]},
                    !.nextId = @ + 1]

(***************************************************************************)
(* State.                                                                  *)
(***************************************************************************)
VARIABLES
    handler,      \* the query type the batch was dispatched to (queryTypeMux)
    settingsOk,   \* whether models.LoadPluginSettings succeeds for this request
    nQueries,     \* len(req.Queries)
    idx,          \* number of queries the handler's loop has gone through
    cur,          \* the query the loop handled last, and the remote's answer to it
    responses,    \* response.Responses: RefID -> DataResponse
    calls,        \* the RefIDs for which client.Do was called, in call order
    malformed,    \* history: the RefIDs of the queries whose JSON was no JSON text
    pc,           \* "loop", "returned" (the handler returned response, nil), "panic"
    tableBody,    \* SpecShaper: the remote body handed to the table shaper
    tableResult,  \* SpecShaper: the DataResponse the shaper recorded for it
    version,      \* SpecVersion: the arguments of isVersionGreater and what it returned
    health,       \* SpecHealth: the settings of a CheckHealth call, the remote's answer
                  \* and the CheckHealthResult
    proxy,        \* SpecProxy: the settings of a list request, the remote's answer and
                  \* what handleQuery wrote to the caller
    ctx,          \* the context.Context of the batch: whether the caller has cancelled
                  \* it, and how many queries the loop had gone through by then
    helper,       \* a call of one of the pure functions: its arguments and its result
    editor        \* the query editor of the frontend: its React state and the
                  \* object-list requests in flight

vars == <<handler, settingsOk, nQueries, idx, cur, responses, calls, malformed, pc,
          tableBody, tableResult, version, health, proxy, ctx, helper, editor>>

Handlers == {"alarms", "dciValues", "summaryTables", "objectQueries", "objectStatus"}

\* The RefID of the i-th query of the batch: pairwise distinct.
RefID(i) == "R" \o ToString(i)

\* m[k] = v of a Go map.
Put(m, k, v) == (k :> v) @@ m

(***************************************************************************)
(* Inputs: the query parameters and the remote's answers.                  *)
(***************************************************************************)
QueryJSONs ==
    { NotJSON,
      JObj(<<>>),
      JObj(<< <<"sourceObjectId", JStr("7")>>, <<"dciId", JStr("3")>>,
              <<"summaryTableId", JStr("5")>>, <<"objectQueryId", JStr("9")>> >>),
      JObj(<< <<"sourceObjectId", JStr("x")>>, <<"summaryTableId", JStr("")>> >>),
      JObj(<< <<"sourceObjectId", JNum(7)>> >>),
      JObj(<< <<"sourceObjectId", JStr("7")>> >>) }

\* Queries of the objectQueries type with queryParameters.
objectQuery(queryParameters) ==
    JObj(<< <<"sourceObjectId", JStr("7")>>, <<"objectQueryId", JStr("9")>>,
            <<"queryParameters", JStr(queryParameters)>> >>)
ObjectQueryJSONs ==
    { objectQuery("[{\"value\":\"1\",\"key\":\"b\"},{\"key\":\"a\",\"value\":2}]"),
      objectQuery("[{\"key\":\"id\",\"value\":9007199254740993}]"),
      objectQuery("{\"key\":\"k\"}") }

StatusCodes == {200, 401, 500}

CommonBodies ==
    { NotJSON,
      JObj(<< <<"reason", JStr("denied")>> >>),
      JObj(<< <<"reason", JStr("denied")>>, <<"code", JNum(42)>> >>),
      JObj(<<>>),
      JArr(<<>>) }

alarmRecord ==
    JObj(<< <<"Id", JNum(1)>>, <<"Severity", JStr("Critical")>>,
            <<"State", JStr("Outstanding")>>, <<"Source", JStr("node")>>,
            <<"Message", JStr("down")>>, <<"Count", JNum(2)>>,
            <<"Ack/Resolve by", JStr("")>>,
            <<"Created", JStr("2024-01-01T00:00:00Z")>>,
            <<"Last Change", JStr("2024-01-01T01:00:00+01:00")>> >>)

secondAlarmRecord ==
    JObj(<< <<"Id", JNum(7)>>, <<"Severity", JStr("Minor")>>,
            <<"State", JStr("Terminated")>>, <<"Source", JStr("router")>>,
            <<"Message", JStr("up")>>, <<"Count", JNum(1)>>,
            <<"Ack/Resolve by", JStr("admin")>>,
            <<"Created", JStr("2024-01-01T01:00:00+01:00")>>,
            <<"Last Change", JStr("2024-01-01T00:00:00Z")>> >>)

dciRow(ts, val) == JObj(<< <<"timestamp", JStr(ts)>>, <<"value", JStr(val)>> >>)
dciBody(rows) ==
    JObj(<< <<"description", JStr("cpu")>>, <<"unitName", JStr("%")>>,
            <<"values", JArr(rows)>> >>)

statusRecord(name, status) == JObj(<< <<"Name", JStr(name)>>, <<"Status", JNum(status)>> >>)

HandlerBodies(h) ==
    CASE h = "alarms" ->
           { JArr(<<alarmRecord>>),
             JArr(<<alarmRecord, secondAlarmRecord>>),
             JArr(<<JObj(<< <<"Id", JStr("one")>> >>)>>) }
      [] h = "dciValues" ->
           { dciBody(<<dciRow("2024-01-01T00:00:00Z", "10"), dciRow("2024-01-01T01:00:00+01:00", "-3")>>),
             dciBody(<<dciRow("yesterday", "10"), dciRow("2024-01-01T00:00:00Z", "1e1")>>),
             dciBody(<<dciRow("2024-01-01T00:00:00Z", "ten")>>) }
      [] h \in {"summaryTables", "objectQueries"} ->
           { JArr(<<JObj(<< <<"b", JNum(1)>>, <<"a", JStr("x")>> >>)>>),
             JArr(<<JObj(<< <<"a", JNull>> >>), JObj(<< <<"a", JNum(2)>> >>)>>) }
      [] h = "objectStatus" ->
           { JArr(<<statusRecord("n1", 0), statusRecord("n2", 8)>>),
             JArr(<<statusRecord("n1", 4), statusRecord("n2", 9)>>),
             JArr(<<statusRecord("n1", -1)>>) }

\* What the remote call of one query comes to: client.Do fails, io.ReadAll
\* fails, or a status code and a body are read.
TransportError == [kind |-> "transport", code |-> 0, body |-> NotJSON]
ReadError == [kind |-> "read", code |-> 200, body |-> NotJSON]
Answer(code, body) == [kind |-> "http", code |-> code, body |-> body]
NoCall == [kind |-> "none", code |-> 0, body |-> NotJSON]

Outcomes(h) ==
    {TransportError, ReadError}
    \cup {Answer(code, body) : code \in StatusCodes, body \in CommonBodies \cup HandlerBodies(h)}

\* No request: the query was given up before client.Do.
NoRequest == [method |-> "", path |-> "", body |-> NotJSON]

(***************************************************************************)
(* One pass of each handler's loop over req.Queries.  A pass is given the  *)
(* response map so far, the RefID and JSON of the query and the outcome    *)
(* of the remote call, and yields the map after the pass, whether          *)
(* client.Do was called, the request, and whether the pass panicked.       *)
(***************************************************************************)
Pass(resp, called, request, panicked) ==
    [resp |-> resp, called |-> called, request |-> request, panic |-> panicked]

\* The pass ends (continue) with an error recorded before any request.
GiveUp(resp, refId, message) ==
    Pass(Put(resp, refId, ErrDataResponse("BadRequest", message)), FALSE, NoRequest, FALSE)

\* d.query: the DataResponse of an alarms query whose request was sent.
alarmsAnswer(o) ==
    CASE o.kind = "transport" -> ErrDataResponse("BadRequest", "failed to connect to server")
      [] o.kind = "read" -> ErrDataResponse("BadRequest", "failed read response")
      [] OTHER -> alarmsShape(o.code, o.body)

\* alarmsPass with the error of strconv.ParseInt dropped: the request goes
\* out with the body {}.
alarmsPassIgnoringBadId(resp, refId, json, o, settings) ==
    IF ~queryModelDecodes(json) THEN GiveUp(resp, refId, "json unmarshal")
    ELSE IF ~settings THEN GiveUp(resp, refId, "failed to load plugin settings")
    ELSE Pass(Put(resp, refId, alarmsAnswer(o)), TRUE,
              [method |-> "POST", path |-> "v1/server-info",
               body |-> IF alarmsBodyOk(queryModel(json).SourceObjectId)
                        THEN alarmsBody(queryModel(json).SourceObjectId)
                        ELSE JObj(<<>>)],
              FALSE)

\* handleAlarmQuery, lines 113-123, with query, lines 128-258.
alarmsPass(resp, refId, json, o, settings) ==
    IF ~queryModelDecodes(json) THEN GiveUp(resp, refId, "json unmarshal")
    ELSE IF ~settings THEN GiveUp(resp, refId, "failed to load plugin settings")
    ELSE IF ~alarmsBodyOk(queryModel(json).SourceObjectId)
    THEN GiveUp(resp, refId, "invalid rootObjectId")
    ELSE Pass(Put(resp, refId, alarmsAnswer(o)), TRUE,
              [method |-> "POST", path |-> "v1/server-info",
               body |-> alarmsBody(queryModel(json).SourceObjectId)],
              FALSE)

RECURSIVE dciRowLoop(_, _, _, _)
\* Lines 553-567: the row loop writes an error for the refId at every row
\* that fails to parse and goes on with the next row.
dciRowLoop(resp, refId, rows, i) ==
    IF i > Len(rows) THEN resp
    ELSE dciRowLoop(IF dciRowError(rows[i]).status = "none" THEN resp
                    ELSE Put(resp, refId, dciRowError(rows[i])),
                    refId, rows, i + 1)

\* Lines 536-576: the map after a body was read.  The status code is not
\* looked at; the frame is stored after the row loop, whatever it recorded.
dciShape(resp, refId, body) ==
    IF ~dciValueResponseDecodes(body)
    THEN Put(resp, refId, ErrDataResponse("BadRequest", "failed to parse response"))
    ELSE Put(dciRowLoop(resp, refId, dciValues(body), 1), refId,
             FramesResponse(<<dciFrame(body)>>))

\* handleDciValues, lines 498-577.
dciValuesPass(resp, refId, json, o, settings) ==
    IF ~queryModelDecodes(json) THEN GiveUp(resp, refId, "json unmarshal")
    ELSE IF ~settings THEN GiveUp(resp, refId, "failed to load plugin settings")
    ELSE Pass(CASE o.kind = "transport" ->
                     Put(resp, refId, ErrDataResponse("BadRequest", "failed to connect to server"))
                [] o.kind = "read" ->
                     Put(resp, refId, ErrDataResponse("BadRequest", "failed to read response"))
                [] OTHER -> dciShape(resp, refId, o.body),
              TRUE,
              [method |-> "GET",
               path |-> "v1/objects/" \o queryModel(json).SourceObjectId
                        \o "/data-collection/" \o queryModel(json).DciId \o "/history",
               body |-> JNull],
              FALSE)

\* qm[field].(string) is missing, not a string, or empty.
requiredMissing(qm, field) == ~IsNonEmptyString(MapGet(qm, field))

RECURSIVE requiredLoop(_, _, _, _, _, _)
\* Lines 638-643: the loop over queryConfig.required, in the order the map
\* is ranged over; its continue goes on with the next required field.
requiredLoop(resp, refId, qm, required, order, i) ==
    IF i > Len(order) THEN resp
    ELSE requiredLoop(IF requiredMissing(qm, order[i])
                      THEN Put(resp, refId, ErrDataResponse("BadRequest", required[order[i]]))
                      ELSE resp,
                      refId, qm, required, order, i + 1)

\* Lines 674-795: the DataResponse of a table query whose request was sent.
tableAnswer(o, frameName) ==
    CASE o.kind = "transport" -> ErrDataResponse("BadRequest", "failed to connect to server")
      [] o.kind = "read" -> ErrDataResponse("BadRequest", "failed to read response")
      [] o.code = 401 -> unauthorizedResponse
      [] o.code # 200 -> requestErrorResponse(o.code, o.body)
      [] OTHER -> shapeTable(o.body, frameName)

\* handleTableQuery, lines 631-796.  order is the order in which the range
\* over queryConfig.required yields its fields.
tablePass(resp, refId, json, o, settings, config, reqBody, order) ==
    IF ~queryMapDecodes(json) THEN GiveUp(resp, refId, "json unmarshal")
    ELSE LET checked == requiredLoop(resp, refId, json, config.required, order, 1) IN
         IF ~settings THEN GiveUp(checked, refId, "failed to load plugin settings")
         ELSE Pass(Put(checked, refId, tableAnswer(o, config.frameName)), TRUE,
                   [method |-> "POST", path |-> config.url, body |-> reqBody],
                   FALSE)

\* handleObjectStatusQuery, lines 875-983.
objectStatusPass(resp, refId, json, o, settings) ==
    IF ~queryModelDecodes(json) THEN GiveUp(resp, refId, "json unmarshal")
    ELSE IF ~settings THEN GiveUp(resp, refId, "failed to load plugin settings")
    ELSE LET request == [method |-> "POST", path |-> "/v1/grafana/objects-status",
                         body |-> objectStatusBody(queryModel(json).SourceObjectId)]
             answer(r) == Pass(Put(resp, refId, r), TRUE, request, FALSE)
         IN CASE o.kind = "transport" ->
                   answer(ErrDataResponse("BadRequest", "failed to connect to server"))
              [] o.kind = "read" ->
                   answer(ErrDataResponse("BadRequest", "failed to read response"))
              [] o.code = 401 -> answer(unauthorizedResponse)
              [] o.code # 200 -> answer(requestErrorResponse(o.code, o.body))
              [] ~statusDataDecodes(o.body) ->
                   answer(ErrDataResponse("BadRequest", "failed to parse response"))
              [] ~statusFramesBuilt(Elements(o.body)) ->
                   \* color[obj.Status]: index out of range, a run-time panic.
                   Pass(resp, TRUE, request, TRUE)
              [] OTHER -> answer(FramesResponse(statusFrames(Elements(o.body))))

(***************************************************************************)
(* Actions of the batch handlers.                                          *)
(***************************************************************************)
\* The table shaper has recorded nothing.
NotShaped == ErrDataResponse("none", "")

\* No query of the batch has been gone through yet.
NoQuery == [refId |-> "", json |-> NotJSON, outcome |-> NoCall, called |-> FALSE,
            request |-> NoRequest]

\* The orders in which a range over the keys of required can yield them.
RangeOrders(required) ==
    {order \in [1..Cardinality(DOMAIN required) -> DOMAIN required] :
        \A i, j \in DOMAIN order : i # j => order[i] # order[j]}

\* Mutant of Advance: a call that fails to connect is made a second time.
AdvanceWithRetry(json, o, pass) ==
    /\ pc = "loop"
    /\ idx < nQueries
    /\ responses' = pass.resp
    /\ calls' = IF pass.called
                THEN IF o.kind = "transport"
                     THEN calls \o <<RefID(idx + 1), RefID(idx + 1)>>
                     ELSE Append(calls, RefID(idx + 1))
                ELSE calls
    /\ malformed' = IF json = NotJSON THEN malformed \cup {RefID(idx + 1)} ELSE malformed
    /\ cur' = [refId |-> RefID(idx + 1), json |-> json,
               outcome |-> IF pass.called THEN o ELSE NoCall,
               called |-> pass.called, request |-> pass.request]
    /\ idx' = idx + 1
    /\ pc' = IF pass.panic THEN "panic" ELSE "loop"
    /\ UNCHANGED <<handler, settingsOk, nQueries, tableBody, tableResult, version, health, proxy, ctx, helper, editor>>

\* The loop variables after one pass.
Advance(json, o, pass) ==
    /\ pc = "loop"
    /\ idx < nQueries
    /\ responses' = pass.resp
    /\ calls' = IF pass.called THEN Append(calls, RefID(idx + 1)) ELSE calls
    /\ malformed' = IF json = NotJSON THEN malformed \cup {RefID(idx + 1)} ELSE malformed
    /\ cur' = [refId |-> RefID(idx + 1), json |-> json,
               outcome |-> IF pass.called THEN o ELSE NoCall,
               called |-> pass.called, request |-> pass.request]
    /\ idx' = idx + 1
    /\ pc' = IF pass.panic THEN "panic" ELSE "loop"
    /\ UNCHANGED <<handler, settingsOk, nQueries, tableBody, tableResult, version, health, proxy, ctx, helper, editor>>

\* The remote answers only a request that was sent: whether a pass sends one
\* does not depend on the answer.
AnswersTo(h, sent) == IF sent THEN Outcomes(h) ELSE {NoCall}

handleAlarmQuery ==
    /\ handler = "alarms"
    /\ \E json \in QueryJSONs :
         \E o \in AnswersTo("alarms",
                    /\ queryModelDecodes(json) /\ settingsOk
                    /\ alarmsBodyOk(queryModel(json).SourceObjectId)) :
            Advance(json, o, alarmsPass(responses, RefID(idx + 1), json, o, settingsOk))

handleDciValues ==
    /\ handler = "dciValues"
    /\ \E json \in QueryJSONs :
         \E o \in AnswersTo("dciValues", queryModelDecodes(json) /\ settingsOk) :
            Advance(json, o, dciValuesPass(responses, RefID(idx + 1), json, o, settingsOk))

\* One pass of handleTableQuery under the configuration of summaryTables.
handleSummaryTableQuery ==
    /\ handler = "summaryTables"
    /\ \E json \in QueryJSONs, order \in RangeOrders(summaryTableConfig.required) :
         \E o \in AnswersTo("summaryTables", queryMapDecodes(json) /\ settingsOk) :
            Advance(json, o, tablePass(responses, RefID(idx + 1), json, o, settingsOk,
                                       summaryTableConfig, summaryTableBody(json), order))

\* One pass of handleTableQuery under the configuration of objectQueries.
handleObjectQueryQuery ==
    /\ handler = "objectQueries"
    /\ \E json \in QueryJSONs \cup ObjectQueryJSONs,
          order \in RangeOrders(objectQueryConfig.required) :
         \E o \in AnswersTo("objectQueries", queryMapDecodes(json) /\ settingsOk) :
            Advance(json, o, tablePass(responses, RefID(idx + 1), json, o, settingsOk,
                                       objectQueryConfig, objectQueryBody(json), order))

handleObjectStatusQuery ==
    /\ handler = "objectStatus"
    /\ \E json \in QueryJSONs :
         \E o \in AnswersTo("objectStatus", queryModelDecodes(json) /\ settingsOk) :
            Advance(json, o, objectStatusPass(responses, RefID(idx + 1), json, o, settingsOk))

\* isVersionGreater has not been called.
NoComparison == [actual |-> "", required |-> "", called |-> FALSE, result |-> FALSE]

\* No pure function is being called on its own.
NoHelperCall == [fn |-> "", called |-> FALSE]

\* No query editor is open.
NoEditor == [pc |-> "closed"]

\* A context that has not been cancelled.
Background == [cancelled |-> FALSE, at |-> 0]

\* A parameter of the query string of a resource request: absent, or present
\* with a value.
NoParam == [present |-> FALSE, value |-> ""]
Param(value) == [present |-> TRUE, value |-> value]
\* req.URL.Query().Get(key): the value, "" when the parameter is absent.
QueryGet(param) == IF param.present THEN param.value ELSE ""

\* No list request has been made.
NoListRequest ==
    [endpoint |-> "", objectId |-> NoParam, url |-> "", settings |-> FALSE,
     outcome |-> NoCall, called |-> FALSE, response |-> NoProxyResponse, pc |-> "idle"]

\* CheckHealth has not been called.
NoHealthCheck ==
    [config |-> PluginSettings(FALSE, "", ""), outcome |-> NoCall, called |-> FALSE,
     result |-> NoHealthResult, pc |-> "idle"]

\* return response, nil: the loop is through.
ReturnResponse ==
    /\ pc = "loop"
    /\ idx = nQueries
    /\ pc' = "returned"
    /\ UNCHANGED <<handler, settingsOk, nQueries, idx, cur, responses, calls, malformed,
                   tableBody, tableResult, version, health, proxy, ctx, helper, editor>>

Init ==
    /\ handler \in Handlers
    /\ settingsOk \in BOOLEAN
    /\ nQueries \in 0..MaxQueries
    /\ idx = 0
    /\ cur = NoQuery
    /\ responses = <<>>
    /\ calls = <<>>
    /\ malformed = {}
    /\ pc = "loop"
    /\ tableBody = JNull
    /\ tableResult = NotShaped
    /\ version = NoComparison
    /\ health = NoHealthCheck
    /\ proxy = NoListRequest
    /\ ctx = Background
    /\ helper = NoHelperCall
    /\ editor = NoEditor

Next ==
    \/ handleAlarmQuery
    \/ handleDciValues
    \/ handleSummaryTableQuery
    \/ handleObjectQueryQuery
    \/ handleObjectStatusQuery
    \/ ReturnResponse

Spec == Init /\ [][Next]_vars

(***************************************************************************)
(* The batch handlers under a caller that may cancel the context.  No      *)
(* handler reads its context: query, handleDciValues, handleTableQuery and *)
(* handleObjectStatusQuery build their requests with http.NewRequest and   *)
(* never look at ctx.Done() or ctx.Err().                                  *)
(***************************************************************************)
\* The caller cancels the context while the handler is in its loop.
CancelContext ==
    /\ pc = "loop"
    /\ ~ctx.cancelled
    /\ ctx' = [cancelled |-> TRUE, at |-> idx]
    /\ UNCHANGED <<handler, settingsOk, nQueries, idx, cur, responses, calls, malformed,
                   pc, tableBody, tableResult, version, health, proxy, helper, editor>>

NextCancel ==
    \/ Next
    \/ CancelContext

SpecCancel == Init /\ [][NextCancel]_vars

(***************************************************************************)
(* The table shaper on its own: every body of up to MaxRows rows over two  *)
(* keys, shaped once.                                                      *)
(***************************************************************************)
CellValues == {JNull, JNum(1), JStr("x"), JBool(TRUE)}
KeyOrders == {<<>>, <<"a">>, <<"b">>, <<"a", "b">>, <<"b", "a">>}

\* The rows of a remote table: null, or an object whose keys come in one of
\* the orders and whose values are cell values.
TableRows ==
    {JNull} \cup
    UNION {{JObj([i \in 1..Len(ks) |-> <<ks[i], vals[i]>>]) :
               vals \in [1..Len(ks) -> CellValues]} : ks \in KeyOrders}

TableBodies == {JArr(rows) : rows \in UNION {[1..n -> TableRows] : n \in 0..MaxRows}}

\* handleTableQuery on a 200 answer with the body: lines 702-795.
ShapeTable ==
    /\ pc = "shaper"
    /\ tableResult = NotShaped
    /\ tableResult' = shapeTable(tableBody, summaryTableConfig.frameName)
    /\ UNCHANGED <<handler, settingsOk, nQueries, idx, cur, responses, calls, malformed,
                   pc, tableBody, version, health, proxy, ctx, helper, editor>>

InitShaper ==
    /\ handler = "summaryTables"
    /\ settingsOk = TRUE
    /\ nQueries = 0
    /\ idx = 0
    /\ cur = NoQuery
    /\ responses = <<>>
    /\ calls = <<>>
    /\ malformed = {}
    /\ pc = "shaper"
    /\ tableBody \in TableBodies
    /\ tableResult = NotShaped
    /\ version = NoComparison
    /\ health = NoHealthCheck
    /\ proxy = NoListRequest
    /\ ctx = Background
    /\ helper = NoHelperCall
    /\ editor = NoEditor

NextShaper == ShapeTable

SpecShaper == InitShaper /\ [][NextShaper]_vars

(***************************************************************************)
(* isVersionGreater on its own: every pair of version strings, compared    *)
(* once.                                                                   *)
(***************************************************************************)
\* The batch handlers and the table shaper are not running.
BatchIdle ==
    /\ handler = "alarms"
    /\ settingsOk = TRUE
    /\ nQueries = 0
    /\ idx = 0
    /\ cur = NoQuery
    /\ responses = <<>>
    /\ calls = <<>>
    /\ malformed = {}
    /\ tableBody = JNull
    /\ tableResult = NotShaped
    /\ ctx = Background

CompareVersions ==
    /\ pc = "version"
    /\ ~version.called
    /\ version' = [version EXCEPT !.called = TRUE,
                                  !.result = isVersionGreater(version.actual, version.required)]
    /\ UNCHANGED <<handler, settingsOk, nQueries, idx, cur, responses, calls, malformed,
                   pc, tableBody, tableResult, health, proxy, ctx, helper, editor>>

InitVersion ==
    /\ BatchIdle
    /\ helper = NoHelperCall
    /\ editor = NoEditor
    /\ pc = "version"
    /\ \E a \in VersionStrings, r \in VersionStrings :
          version = [actual |-> a, required |-> r, called |-> FALSE, result |-> FALSE]
    /\ health = NoHealthCheck
    /\ proxy = NoListRequest

NextVersion == CompareVersions

SpecVersion == InitVersion /\ [][NextVersion]_vars

(***************************************************************************)
(* CheckHealth on its own: every configuration, one call.                  *)
(***************************************************************************)
ApiKeys == {"", "key"}
ServerAddresses == {"", "http://nx:8000", "http://nx:8000/", ":bad"}

\* The bodies the remote answers GET v1/server-info with.
HealthBodies ==
    {JObj(<< <<"version", JStr(v)>> >>) : v \in VersionStrings}
    \cup { NotJSON, JNull, JArr(<<>>), JObj(<<>>),
           JObj(<< <<"name", JStr("nx")>> >>),
           JObj(<< <<"version", JNum(5)>> >>),
           JObj(<< <<"version", JNull>> >>),
           JObj(<< <<"version", JStr("4.9.9")>>, <<"version", JStr("5.2.10")>> >>) }

HealthOutcomes ==
    {TransportError, ReadError}
    \cup {Answer(code, body) : code \in StatusCodes, body \in HealthBodies}

CheckHealth ==
    /\ pc = "health"
    /\ health.pc = "start"
    /\ \E o \in IF healthPrecheck(health.config) = NoHealthResult
                    /\ NewRequestOk(health.config.ServerAddress)
                 THEN HealthOutcomes ELSE {NoCall} :
          LET out == checkHealth(health.config, o) IN
          health' = [health EXCEPT !.outcome = o,
                                   !.called = out.called,
                                   !.result = out.result,
                                   !.pc = IF out.panic THEN "panic" ELSE "returned"]
    /\ UNCHANGED <<handler, settingsOk, nQueries, idx, cur, responses, calls, malformed,
                   pc, tableBody, tableResult, version, proxy, ctx, helper, editor>>

InitHealth ==
    /\ BatchIdle
    /\ helper = NoHelperCall
    /\ editor = NoEditor
    /\ pc = "health"
    /\ version = NoComparison
    /\ proxy = NoListRequest
    /\ \E loaded \in BOOLEAN, k \in ApiKeys, a \in ServerAddresses :
          health = [NoHealthCheck EXCEPT !.config = PluginSettings(loaded, k, a),
                                         !.pc = "start"]

NextHealth == CheckHealth

SpecHealth == InitHealth /\ [][NextHealth]_vars

(***************************************************************************)
(* The list proxy on its own: one list request.                            *)
(***************************************************************************)
listEntry(name, id) == JObj(<< <<"name", name>>, <<"id", JNum(id)>> >>)

\* The elements of a remote objects array: entries with a name and an id,
\* null, an entry without a name, an entry whose name is a number.
ProxyElements ==
    {listEntry(JStr(n), id) : n \in {"a", "b", "B"}, id \in {1, 2}}
    \cup {JNull, JObj(<< <<"id", JNum(1)>> >>), listEntry(JNum(5), 1)}

ProxyArrays == UNION {[1..n -> ProxyElements] : n \in 0..MaxObjects}

\* A list of thirteen entries: one more than sort.Slice sorts by insertion.
LongList ==
    [i \in 1..(maxInsertion + 1) |-> listEntry(JStr(IF i = 7 THEN "b" ELSE "a"), i)]

ProxyBodies ==
    {NotJSON, JNull, JArr(<<>>), JStr("a"), JObj(<<>>),
     JObj(<< <<"objects", JNull>> >>), JObj(<< <<"objects", JStr("a")>> >>),
     JObj(<< <<"total", JNum(1)>>, <<"objects", JObj(<<>>)>> >>),
     JObj(<< <<"objects", JArr(LongList)>> >>)}
    \cup {JObj(<< <<"objects", JArr(a)>> >>) : a \in ProxyArrays}
    \cup {JObj(<< <<"total", JNum(1)>>, <<"objects", JArr(a)>> >>) : a \in ProxyArrays}

\* The status codes of the remote's answers to a list request.
ProxyStatusCodes == StatusCodes \cup {404}

ProxyOutcomes ==
    {TransportError, ReadError}
    \cup {Answer(code, body) : code \in ProxyStatusCodes, body \in ProxyBodies}

\* The list requests: one to a list of fixed path, and those to /dcis
\* without objectId, with an empty one and with the id of an object.
ListRequests ==
    {<<"alarm-objects", NoParam>>}
    \cup {<<"dcis", param>> : param \in {NoParam, Param(""), Param("42")}}

\* handleQuery(url, "GET", rw, req).
handleQuery(url) ==
    /\ \/ /\ ~proxy.settings
          /\ proxy' = [proxy EXCEPT !.response = httpError("failed to load plugin settings", 500),
                                    !.pc = "returned"]
       \/ /\ proxy.settings
          /\ \E o \in ProxyOutcomes :
                \E sorted \in sortSlice(jsonDataOf(o.body)) :
                   proxy' = [proxy EXCEPT !.url = url, !.outcome = o, !.called = TRUE,
                                          !.response = proxyAnswer(o, sorted),
                                          !.pc = "returned"]
    /\ UNCHANGED <<handler, settingsOk, nQueries, idx, cur, responses, calls, malformed,
                   pc, tableBody, tableResult, version, health, ctx, helper, editor>>

\* handleAlarmObjects; handleDciObjects, handleSummaryTables,
\* handleSummaryTableObjects, handleObjectQueries and handleObjectQueryObjects
\* differ from it by the path only.
handleAlarmObjects ==
    /\ pc = "proxy"
    /\ proxy.pc = "start"
    /\ proxy.endpoint = "alarm-objects"
    /\ handleQuery("/v1/grafana/object-list?filter=alarm")

\* handleDciList without the check of lines 488-491.
handleDciListUnchecked ==
    /\ pc = "proxy"
    /\ proxy.pc = "start"
    /\ proxy.endpoint = "dcis"
    /\ handleQuery("/v1/grafana/objects/" \o QueryGet(proxy.objectId) \o "/dci-list")

\* handleDciList.
handleDciList ==
    /\ pc = "proxy"
    /\ proxy.pc = "start"
    /\ proxy.endpoint = "dcis"
    /\ IF QueryGet(proxy.objectId) = ""
       THEN /\ proxy' = [proxy EXCEPT !.response = httpError("missing objectId parameter", 400),
                                      !.pc = "returned"]
            /\ UNCHANGED <<handler, settingsOk, nQueries, idx, cur, responses, calls,
                           malformed, pc, tableBody, tableResult, version, health, ctx, helper, editor>>
       ELSE handleQuery("/v1/grafana/objects/" \o QueryGet(proxy.objectId) \o "/dci-list")

InitProxy ==
    /\ BatchIdle
    /\ helper = NoHelperCall
    /\ editor = NoEditor
    /\ pc = "proxy"
    /\ version = NoComparison
    /\ health = NoHealthCheck
    /\ \E loaded \in BOOLEAN, request \in ListRequests :
          proxy = [NoListRequest EXCEPT !.endpoint = request[1], !.objectId = request[2],
                                        !.settings = loaded, !.pc = "start"]

NextProxy == handleAlarmObjects \/ handleDciList

SpecProxy == InitProxy /\ [][NextProxy]_vars

(***************************************************************************)
(* httpStatusToBackendStatus on its own: every code, one call.             *)
(***************************************************************************)
\* The other specifications' variables at rest.
BackendIdle ==
    /\ BatchIdle
    /\ version = NoComparison
    /\ health = NoHealthCheck
    /\ proxy = NoListRequest
    /\ editor = NoEditor

ClassifyStatus ==
    /\ pc = "status"
    /\ ~helper.called
    /\ helper' = [helper EXCEPT !.called = TRUE,
                                !.result = httpStatusToBackendStatus(helper.code)]
    /\ UNCHANGED <<handler, settingsOk, nQueries, idx, cur, responses, calls, malformed,
                   pc, tableBody, tableResult, version, health, proxy, ctx, editor>>

InitStatus ==
    /\ BackendIdle
    /\ pc = "status"
    /\ \E code \in (-1)..MaxStatusCode :
          helper = [fn |-> "httpStatusToBackendStatus", code |-> code,
                    called |-> FALSE, result |-> ""]

NextStatus == ClassifyStatus

SpecStatus == InitStatus /\ [][NextStatus]_vars

(***************************************************************************)
(* joinURL on its own: every base and path, one call.                      *)
(***************************************************************************)
\* The characters of the bases and paths: the slash and two others.
URLChars == {"/", "a", "b"}
URLParts == UNION {[1..n -> URLChars] : n \in 0..MaxURLPart}

JoinURL ==
    /\ pc = "url"
    /\ ~helper.called
    /\ helper' = [helper EXCEPT !.called = TRUE,
                                !.result = joinURL(helper.base, helper.path)]
    /\ UNCHANGED <<handler, settingsOk, nQueries, idx, cur, responses, calls, malformed,
                   pc, tableBody, tableResult, version, health, proxy, ctx, editor>>

InitURL ==
    /\ BackendIdle
    /\ pc = "url"
    /\ \E base \in URLParts, path \in URLParts :
          helper = [fn |-> "joinURL", base |-> base, path |-> path,
                    called |-> FALSE, result |-> <<>>]

NextURL == JoinURL

SpecURL == InitURL /\ [][NextURL]_vars

(***************************************************************************)
(* filterQuery on its own: every query, one call.                          *)
(***************************************************************************)
NetXMSQueries ==
    [queryType : {Undefined, Str("")} \cup {Str(h) : h \in Handlers \cup {"other"}},
     sourceObjectId : {Undefined, Str(""), Str("7")},
     dciId : {Undefined, Str("3")},
     summaryTableId : {Undefined, Str("5")},
     objectQueryId : {Undefined, Str(""), Str("9")},
     queryParameters : {Undefined, Str(""), Str("[]"), Str("{")}]

FilterQuery ==
    /\ pc = "filter"
    /\ ~helper.called
    /\ helper' = [helper EXCEPT !.called = TRUE, !.result = filterQuery(helper.query)]
    /\ UNCHANGED <<handler, settingsOk, nQueries, idx, cur, responses, calls, malformed,
                   pc, tableBody, tableResult, version, health, proxy, ctx, editor>>

InitFilter ==
    /\ BackendIdle
    /\ pc = "filter"
    /\ \E query \in NetXMSQueries :
          helper = [fn |-> "filterQuery", query |-> query, called |-> FALSE,
                    result |-> FALSE]

NextFilter == FilterQuery

SpecFilter == InitFilter /\ [][NextFilter]_vars

(***************************************************************************)
(* The query editor on its own: type selections and list responses.        *)
(***************************************************************************)
EditorRest ==
    UNCHANGED <<handler, settingsOk, nQueries, idx, cur, responses, calls, malformed,
                pc, tableBody, tableResult, version, health, proxy, ctx, helper>>

\* The effect of lines 86-113, run after the first render and after every
\* render in which query.queryType has changed.
useEffect ==
    /\ pc = "editor"
    /\ editor.effectPending
    /\ editor' = IF editor.queryType = ""
                 THEN [editor EXCEPT !.effectPending = FALSE]
                 ELSE [loadObjectList(editor, LoadArgument(editor.queryType))
                          EXCEPT !.effectPending = FALSE]
    /\ EditorRest

\* onTypeChange(option) for an option of the type selector.
onTypeChange ==
    /\ pc = "editor"
    /\ ~editor.effectPending
    /\ editor.changes < MaxTypeChanges
    /\ \E type \in Handlers :
          editor' = [loadObjectList(editor, LoadArgument(type))
                        EXCEPT !.queryType = type,
                               !.effectPending = (type # editor.queryType),
                               !.changes = @ + 1]
    /\ EditorRest

\* loadObjectList after its await, the request fulfilled: lines 48-51.
ResolveObjectList ==
    /\ pc = "editor"
    /\ \E request \in editor.inflight :
          editor' = [editor EXCEPT !.inflight = @ \ {request},
                                   !.objectList = request.list,
                                   !.isLoadingObjects = FALSE]
    /\ EditorRest

\* loadObjectList after its await, the request rejected: line 50-51 only.
RejectObjectList ==
    /\ pc = "editor"
    /\ \E request \in editor.inflight :
          editor' = [editor EXCEPT !.inflight = @ \ {request},
                                   !.isLoadingObjects = FALSE,
                                   !.rejected = TRUE]
    /\ EditorRest

\* The editor after its first render, for a query with or without a type.
InitEditor ==
    /\ BatchIdle
    /\ version = NoComparison
    /\ health = NoHealthCheck
    /\ proxy = NoListRequest
    /\ helper = NoHelperCall
    /\ pc = "editor"
    /\ \E type \in Handlers \cup {""} :
          editor = [pc |-> "mounted", queryType |-> type, objectList |-> "empty",
                    isLoadingObjects |-> TRUE, inflight |-> {}, nextId |-> 1,
                    effectPending |-> TRUE, changes |-> 0, rejected |-> FALSE]

NextEditor == useEffect \/ onTypeChange \/ ResolveObjectList \/ RejectObjectList

SpecEditor == InitEditor /\ [][NextEditor]_vars

(***************************************************************************)
(* Claims.                                                                 *)
(***************************************************************************)
BatchRefIDs == {RefID(i) : i \in 1..nQueries}
TableHandlers == {"summaryTables", "objectQueries"}
CalledRefIDs == {calls[i] : i \in 1..Len(calls)}

\* C1: when a handler is through with a batch of queries with pairwise
\* distinct RefIDs, it has returned a response map whose keys are exactly
\* the RefIDs of the batch, whatever the remote answered.
C1_OneResultPerRefID ==
    pc # "loop" => pc = "returned" /\ DOMAIN responses = BatchRefIDs

\* C2: a query whose parameter JSON is no JSON text gets the BadRequest
\* result of the decode failure and no remote call; the handler goes on with
\* the batch, and when it returns every query of the batch has its own
\* result.
C2_MalformedIsolated ==
    /\ \A r \in malformed :
          /\ r \in DOMAIN responses
          /\ responses[r] = ErrDataResponse("BadRequest", "json unmarshal")
          /\ r \notin CalledRefIDs
    /\ cur.json = NotJSON => pc # "panic" /\ ~cur.called
    /\ pc = "returned" => DOMAIN responses = BatchRefIDs

\* C2 witness: a returned batch of two queries, one malformed and carrying
\* BadRequest, its sibling answered with frames.
C2_Witness ==
    /\ pc = "returned" /\ nQueries = 2
    /\ malformed = {RefID(1)}
    /\ responses[RefID(1)].status = "BadRequest"
    /\ responses[RefID(2)].status = "OK"
    /\ calls = <<RefID(2)>>

\* The query the loop went through last is a table query that decoded, in a
\* request whose settings load.
TableQueryDone(h) ==
    handler = h /\ settingsOk /\ cur.refId # "" /\ cur.json.t \in {"obj", "null"}

\* C3: a summaryTables query without a non-empty summaryTableId ends with
\* the BadRequest result "tableId is required", an objectQueries query
\* without a non-empty objectQueryId or sourceObjectId with the BadRequest
\* result "queryId is required" or "rootObjectId is required": that error is
\* the result recorded for the RefID.
C3_RequiredFieldIsFinal ==
    /\ TableQueryDone("summaryTables") /\ ~IsNonEmptyString(MapGet(cur.json, "summaryTableId"))
         => responses[cur.refId] = ErrDataResponse("BadRequest", "tableId is required")
    /\ TableQueryDone("objectQueries")
       /\ (\/ ~IsNonEmptyString(MapGet(cur.json, "objectQueryId"))
           \/ ~IsNonEmptyString(MapGet(cur.json, "sourceObjectId")))
         => responses[cur.refId] \in
               { ErrDataResponse("BadRequest", "queryId is required"),
                 ErrDataResponse("BadRequest", "rootObjectId is required") }

\* A row of a series whose timestamp is not RFC3339 or whose value is no
\* base-10 float.
BadSeriesRow(row) ==
    \/ ~ParseTimeOk(StringField(row, "timestamp"))
    \/ ~ParseFloatOk(StringField(row, "value"))

\* C4: a dciValues query whose remote series has a row that does not parse
\* ends with a BadRequest error for its RefID, not with a frame.
C4_BadRowFailsQuery ==
    /\ handler = "dciValues" /\ cur.called /\ cur.outcome.kind = "http"
    /\ dciValueResponseDecodes(cur.outcome.body)
    /\ \E i \in 1..Len(dciValues(cur.outcome.body)) :
          BadSeriesRow(dciValues(cur.outcome.body)[i])
    => responses[cur.refId].status = "BadRequest"

\* C5: for every query type, a 401 answer to the query's call gives the
\* RefID the Unauthorized error "Unauthorized: Invalid API key", whatever the
\* body.
C5_UnauthorizedOn401 ==
    cur.called /\ cur.outcome.kind = "http" /\ cur.outcome.code = 401
    => /\ cur.refId \in DOMAIN responses
       /\ responses[cur.refId] =
             ErrDataResponse("Unauthorized", "Unauthorized: Invalid API key")

\* C6: a 200 answer with an empty JSON array to a summaryTables or
\* objectQueries call gives the BadRequest error "empty array", never a
\* frame.
C6_EmptyArrayIsError ==
    /\ handler \in TableHandlers /\ cur.called
    /\ cur.outcome = Answer(200, JArr(<<>>))
    => responses[cur.refId] = ErrDataResponse("BadRequest", "empty array")

\* C10: handleObjectStatusQuery never indexes the palette out of bounds: it
\* does not abort, and every query it went through has a result.
C10_PaletteInBounds ==
    handler = "objectStatus" =>
        /\ pc # "panic"
        /\ cur.refId # "" => cur.refId \in DOMAIN responses

\* The shaper was given a non-empty array whose first element is an object
\* (the later elements are objects or null) and has recorded its result.
ShapedRows ==
    /\ tableResult # NotShaped
    /\ Len(tableBody.e) >= 1
    /\ tableBody.e[1].t = "obj"
\* The columns of the one frame of the result.
ShapedFields == tableResult.frames[1].fields
\* The keys of an object in source order.
SourceKeys(obj) == [i \in 1..Len(obj.m) |-> obj.m[i].k]

EmptyCell(fld, i) ==
    IF fld.type = "string" THEN fld.values[i] = JStr("") ELSE fld.values[i] = JNull

FirstNonNullRow(key) ==
    LET rows == {i \in 1..Len(tableBody.e) : MapGet(tableBody.e[i], key).t # "null"}
    IN IF rows = {} THEN 0 ELSE CHOOSE i \in rows : \A j \in rows : i <= j

\* The display type of a JSON value.
DisplayType(val) ==
    IF val.t = "num" THEN "number" ELSE IF val.t = "bool" THEN "boolean" ELSE "string"

\* C9: a column has the type of its first non-null value over all rows, and
\* the values of that row and of the later rows are kept in the column.
C9_TypeFromFirstNonNull ==
    ShapedRows /\ tableResult.status = "OK" =>
        \A c \in 1..Len(ShapedFields) :
            LET k == FirstNonNullRow(ShapedFields[c].name) IN
            k # 0 =>
               /\ ShapedFields[c].type = DisplayType(MapGet(tableBody.e[k], ShapedFields[c].name))
               /\ \A i \in k..Len(tableBody.e) :
                     LET val == MapGet(tableBody.e[i], ShapedFields[c].name) IN
                     val.t # "null" =>
                        IF ShapedFields[c].type = "string"
                        THEN ShapedFields[c].values[i] = JStr(FormatV(val))
                        ELSE ShapedFields[c].values[i] = val

\* The integer segments of a version, padded with zero segments to n.
PaddedSegments(v, n) ==
    [i \in 1..n |-> IF i <= Len(Split(v)) THEN Atoi(Split(v)[i]) ELSE 0]
\* x >= y in the lexicographic order of two integer sequences of one length.
LexGreaterOrEqual(x, y) ==
    \/ x = y
    \/ \E i \in 1..Len(x) : x[i] > y[i] /\ \A j \in 1..(i - 1) : x[j] = y[j]
VersionGreaterOrEqual(a, b) ==
    LET n == IF Len(Split(a)) > Len(Split(b)) THEN Len(Split(a)) ELSE Len(Split(b))
    IN LexGreaterOrEqual(PaddedSegments(a, n), PaddedSegments(b, n))

\* C12: isVersionGreater(a, b) is true iff a >= b in the lexicographic order
\* of the integer segments, the shorter version padded with zero segments
\* and a non-numeric segment read as 0; it is reflexive and total, and gives
\* the four values of the examples.
C12_VersionOrder ==
    /\ version.called =>
          version.result = VersionGreaterOrEqual(version.actual, version.required)
    /\ \A a \in VersionStrings : isVersionGreater(a, a)
    /\ \A a, b \in VersionStrings : isVersionGreater(a, b) \/ isVersionGreater(b, a)
    /\ isVersionGreater("5.2.4", "5.2.4") = TRUE
    /\ isVersionGreater("5.2.10", "5.2.4") = TRUE
    /\ isVersionGreater("5.1.9", "5.2.4") = FALSE
    /\ isVersionGreater("5", "4.9.9") = TRUE

\* C12 witness: a shorter actual version was compared with a longer
\* required one that exceeds it only in the padded segment, and the
\* comparison said no.
C12_Witness ==
    /\ version.called
    /\ version.actual = "5.2" /\ version.required = "5.2.4"
    /\ version.result = FALSE

\* CheckHealth is through: it returned or it panicked.
HealthDone == health.pc \in {"returned", "panic"}

\* The server-info call was answered 200 with a body whose version field is
\* a version of at least 5.2.4.
ServerIsCompatible ==
    /\ health.called
    /\ health.outcome.kind = "http" /\ health.outcome.code = 200
    /\ MapGet(health.outcome.body, "version").t = "str"
    /\ VersionGreaterOrEqual(MapGet(health.outcome.body, "version").s, "5.2.4")

\* C11: CheckHealth returns status Ok iff the server-info call was answered
\* 200 with a body whose version field is at least 5.2.4; in every other
\* case it returns normally with an error status and a message.
C11_HealthOkIffCompatible ==
    HealthDone =>
        /\ health.pc = "returned"
        /\ health.result.status = "OK" <=> ServerIsCompatible
        /\ ~ServerIsCompatible =>
              health.result.status = "Error" /\ health.result.message # ""

\* C18: with an empty API key CheckHealth returns the error "API key is
\* missing", with an API key and an empty server address the error "Server
\* address is missing"; in both cases no remote request is issued.
C18_MissingSettings ==
    HealthDone /\ health.config.loaded =>
        /\ health.config.ApiKey = "" =>
              /\ health.pc = "returned"
              /\ health.result = HealthResult("Error", "API key is missing")
              /\ ~health.called
        /\ health.config.ApiKey # "" /\ health.config.ServerAddress = "" =>
              /\ health.pc = "returned"
              /\ health.result = HealthResult("Error", "Server address is missing")
              /\ ~health.called

\* C18 witness: the API key and the server address are both empty, and
\* CheckHealth has returned the message of the API key.
C18_Witness ==
    /\ health.pc = "returned"
    /\ health.config = PluginSettings(TRUE, "", "")
    /\ health.result.message = "API key is missing"
    /\ ~health.called

\* C13: once the caller's context is cancelled, no remote call is started
\* for a query the loop comes to afterwards, and the response that is
\* returned holds the results recorded before the cancellation.
C13_NoCallAfterCancel ==
    /\ ctx.cancelled /\ idx > ctx.at => ~cur.called
    /\ ctx.cancelled /\ pc = "returned" =>
          \A i \in 1..ctx.at : RefID(i) \in DOMAIN responses

\* The place of a RefID in the batch.
PlaceOf(refId) == CHOOSE i \in 1..MaxQueries : RefID(i) = refId

\* C14: within one batch each query causes at most one remote request,
\* whatever the request comes to; the requests are issued in the input
\* order of the queries, and the request of a query is issued only when
\* every query before it has its result recorded.
C14_OneRequestInOrder ==
    /\ \A i, j \in 1..Len(calls) : i < j => PlaceOf(calls[i]) < PlaceOf(calls[j])
    /\ \A i \in 1..Len(calls) : PlaceOf(calls[i]) <= idx
    /\ cur.called =>
          /\ calls # <<>> /\ calls[Len(calls)] = cur.refId
          /\ \A j \in 1..(idx - 1) : RefID(j) \in DOMAIN responses

\* C14 witness: a returned batch of two queries; the call of the first failed
\* to connect and was not made again, the call of the second was answered
\* with a status other than 200, and each was called once, in input order.
C14_Witness ==
    /\ pc = "returned" /\ nQueries = 2
    /\ calls = <<RefID(1), RefID(2)>>
    /\ responses[RefID(1)].msg = "failed to connect to server"
    /\ cur.outcome.kind = "http" /\ cur.outcome.code = 500

\* What a pass of the handler h records for a query when it is the only
\* query of its batch: the pass on an empty response map, given the query's
\* parameters and the outcome of its own call.
OwnResult(h, json, o, order) ==
    LET pass ==
          CASE h = "alarms" -> alarmsPass(<<>>, "q", json, o, settingsOk)
            [] h = "dciValues" -> dciValuesPass(<<>>, "q", json, o, settingsOk)
            [] h = "summaryTables" ->
                 tablePass(<<>>, "q", json, o, settingsOk, summaryTableConfig,
                           summaryTableBody(json), order)
            [] h = "objectQueries" ->
                 tablePass(<<>>, "q", json, o, settingsOk, objectQueryConfig,
                           objectQueryBody(json), order)
            [] h = "objectStatus" -> objectStatusPass(<<>>, "q", json, o, settingsOk)
    IN pass.resp["q"]

\* The orders in which the handler can range over its required fields.
RequiredOrders(h) ==
    CASE h = "summaryTables" -> RangeOrders(summaryTableConfig.required)
      [] h = "objectQueries" -> RangeOrders(objectQueryConfig.required)
      [] OTHER -> {<<>>}

\* C15: the result recorded for a query depends only on the query's own
\* parameters and on the outcome of its own call.  Whatever the siblings
\* and their outcomes are, the handler goes through every query of the
\* batch, the result it records for a query is the one the query gets when
\* it is alone in its batch, and no later pass changes or removes a result
\* that is recorded.
C15_OwnResultOnly ==
    /\ [](pc # "loop" => idx = nQueries)
    /\ [](cur.refId # "" /\ pc # "panic" =>
            /\ cur.refId \in DOMAIN responses
            /\ \A order \in RequiredOrders(handler) :
                  responses[cur.refId] = OwnResult(handler, cur.json, cur.outcome, order))
    /\ [][\A r \in DOMAIN responses :
             r \in DOMAIN responses' /\ responses'[r] = responses[r]]_vars

\* An entry of a list: an object with a string name and an id.
IsListEntry(val) ==
    val.t = "obj" /\ MapGet(val, "name").t = "str" /\ HasKey(val, "id")

\* The remote body has the shape {objects: [{name, id}, ...]}.
MatchesListShape(body) ==
    /\ body.t = "obj"
    /\ MapGet(body, "objects").t = "arr"
    /\ \A i \in 1..Len(MapGet(body, "objects").e) : IsListEntry(MapGet(body, "objects").e[i])

\* The list proxy has answered a body it read from the remote.
ProxyAnswered == proxy.pc = "returned" /\ proxy.called /\ proxy.outcome.kind = "http"

\* The entries of a sequence that have the name, in their order.
EntriesNamed(entries, name) ==
    LET named(e) == MapGet(e, "name").s = name IN SelectSeq(entries, named)

\* C16: for a remote body with an objects array of {name, id} objects, the
\* objects array written to the caller is a permutation of the remote array
\* in ascending order of name under byte-wise comparison, and entries of
\* equal name keep the order they had in the remote array.
C16_SortedByNameStable ==
    ProxyAnswered /\ MatchesListShape(proxy.outcome.body) =>
        LET remote == MapGet(proxy.outcome.body, "objects").e
            written == MapGet(proxy.response.body, "objects").e
        IN /\ proxy.response.status = 200
           /\ Len(written) = Len(remote)
           /\ \A i \in 1..(Len(written) - 1) :
                 ~StringLess(MapGet(written[i + 1], "name").s, MapGet(written[i], "name").s)
           /\ \A i \in 1..Len(remote) :
                 EntriesNamed(written, MapGet(remote[i], "name").s)
                    = EntriesNamed([j \in 1..Len(remote) |-> Marshal(remote[j])],
                                   MapGet(remote[i], "name").s)

\* C17: when the remote body does not have the shape {objects: [{name, id},
\* ...]}, the body written to the caller is the remote body, unchanged.
C17_PassThrough ==
    ProxyAnswered /\ ~MatchesListShape(proxy.outcome.body) =>
        proxy.response.body = proxy.outcome.body

\* The call of the query gone through last was answered with a status other
\* than 200 and 401.
OtherStatusAnswer ==
    /\ cur.called /\ cur.outcome.kind = "http"
    /\ cur.outcome.code \notin {200, 401}

\* C19: for a query call answered with a status other than 200 and 401, the
\* error message of the query carries the reason when the body is a JSON
\* object with a reason field, and is the generic "Request error" in every
\* other case.
C19_ReasonInMessage ==
    OtherStatusAnswer =>
        /\ cur.refId \in DOMAIN responses
        /\ responses[cur.refId].status # "OK"
        /\ IF MapGet(cur.outcome.body, "reason").t = "str"
           THEN responses[cur.refId].msg =
                   "Request error: " \o MapGet(cur.outcome.body, "reason").s
           ELSE responses[cur.refId].msg = "Request error"

\* The nine column names of an alarms frame, in order.
AlarmColumns ==
    <<"Id", "Severity", "State", "Source", "Message", "Count",
      "Ack/Resolve by", "Created", "Last Change">>

\* The cell column c holds for a record: the number of Id and Count, the
\* instant of Created and Last Change, the string of the others.
RecordCell(record, c) ==
    LET val == MapGet(record, AlarmColumns[c])
    IN IF AlarmColumns[c] \in {"Id", "Count"} THEN JNum(val.n)
       ELSE IF AlarmColumns[c] \in {"Created", "Last Change"}
       THEN JTime(ParseTime(val.s))
       ELSE JStr(val.s)

\* The alarms query gone through last was answered and came out successful.
AlarmsSucceeded ==
    /\ handler = "alarms" /\ cur.called
    /\ cur.refId \in DOMAIN responses
    /\ responses[cur.refId].status = "OK"

\* C20: a successful alarms query over n alarm records gives exactly one
\* frame named "alarms" with the 9 columns Id, Severity, State, Source,
\* Message, Count, Ack/Resolve by, Created, Last Change in that order, each
\* of n cells, the cell of row i taken from record i.
C20_AlarmsFrame ==
    AlarmsSucceeded =>
        LET records == cur.outcome.body.e
            frames == responses[cur.refId].frames
        IN /\ Len(frames) = 1
           /\ frames[1].name = "alarms"
           /\ Len(frames[1].fields) = Len(AlarmColumns)
           /\ \A c \in 1..Len(AlarmColumns) :
                 /\ frames[1].fields[c].name = AlarmColumns[c]
                 /\ Len(frames[1].fields[c].values) = Len(records)
                 /\ \A i \in 1..Len(records) :
                       frames[1].fields[c].values[i] = RecordCell(records[i], c)

\* A successful alarms query over two records that differ in every column
\* but the two of instants.
C20_Witness ==
    /\ AlarmsSucceeded
    /\ Len(cur.outcome.body.e) = 2
    /\ Len(responses[cur.refId].frames) = 1
    /\ LET fields == responses[cur.refId].frames[1].fields
       IN /\ fields[1].values = <<JNum(1), JNum(7)>>
          /\ fields[7].values = <<JStr(""), JStr("admin")>>

\* The palette of the object statuses by status code.
StatusPalette ==
    (0 :> "rgb(0, 137, 0)") @@ (1 :> "rgb(0, 142, 145)") @@ (2 :> "rgb(201, 198, 0)")
    @@ (3 :> "rgb(223, 102, 0)") @@ (4 :> "rgb(160, 0, 0)") @@ (5 :> "rgb(33, 33, 248)")
    @@ (6 :> "rgb(113, 113, 113)") @@ (7 :> "rgb(100, 41, 0)") @@ (8 :> "rgb(138, 0, 143)")

\* The objectStatus query gone through last was answered with records whose
\* status codes are all palette entries, and came out successful.
StatusSucceeded ==
    /\ handler = "objectStatus" /\ cur.called
    /\ cur.outcome.kind = "http" /\ cur.outcome.code = 200
    /\ cur.outcome.body.t = "arr"
    /\ \A i \in 1..Len(cur.outcome.body.e) :
          /\ MapGet(cur.outcome.body.e[i], "Status").t = "num"
          /\ MapGet(cur.outcome.body.e[i], "Status").n \in DOMAIN StatusPalette
    /\ cur.refId \in DOMAIN responses
    /\ responses[cur.refId].status = "OK"

\* C21: a successful objectStatus query over n records with status codes in
\* 0..8 gives n frames in record order; frame i bears the name of record i
\* and has the single field Name with one cell, that name, coloured with
\* the palette entry of the record's status.
C21_FramePerObject ==
    StatusSucceeded =>
        LET records == cur.outcome.body.e
            frames == responses[cur.refId].frames
        IN /\ Len(frames) = Len(records)
           /\ \A i \in 1..Len(records) :
                 LET name == MapGet(records[i], "Name").s
                 IN /\ frames[i].name = name
                    /\ Len(frames[i].fields) = 1
                    /\ frames[i].fields[1].name = "Name"
                    /\ frames[i].fields[1].values = <<JStr(name)>>
                    /\ frames[i].fields[1].mappings =
                          {[value |-> name, text |-> name,
                            color |-> StatusPalette[MapGet(records[i], "Status").n]]}

\* Two records with different names and statuses were shaped.
C21_Witness ==
    /\ StatusSucceeded
    /\ Len(responses[cur.refId].frames) = 2
    /\ responses[cur.refId].frames[1].name = "n1"
    /\ responses[cur.refId].frames[2].name = "n2"
    /\ MapGet(cur.outcome.body.e[2], "Status").n = 8

\* The names of the nine severities.
SeverityNames ==
    {"Normal", "Warning", "Minor", "Major", "Critical", "Unknown", "Unmanaged",
     "Disabled", "Testing"}

\* C22: the value mappings of the Severity and State columns of an alarms
\* frame are the same for every remote response: Severity has one entry
\* for each of the nine severities, with Critical shown in rgb(160, 0, 0);
\* State has exactly Outstanding -> yellow, Acknowledged -> greenyellow,
\* Resolved -> green; the values of the data add no entry.
C22_FixedMappings ==
    AlarmsSucceeded /\ Len(responses[cur.refId].frames) = 1 =>
        LET fields == responses[cur.refId].frames[1].fields
            severity == fields[2].mappings
            state == fields[3].mappings
        IN /\ fields[2].name = "Severity" /\ fields[3].name = "State"
           /\ {m.value : m \in severity} = SeverityNames
           /\ Cardinality(severity) = Cardinality(SeverityNames)
           /\ \A m \in severity : m.text = m.value
           /\ \A m \in severity : m.value = "Critical" => m.color = "rgb(160, 0, 0)"
           /\ state = {[value |-> "Outstanding", text |-> "Outstanding", color |-> "yellow"],
                       [value |-> "Acknowledged", text |-> "Acknowledged", color |-> "greenyellow"],
                       [value |-> "Resolved", text |-> "Resolved", color |-> "green"]}
           /\ \A c \in (1..Len(fields)) \ {2, 3} : fields[c].mappings = {}

\* An alarms frame whose State column holds a value that has no mapping.
C22_Witness ==
    /\ AlarmsSucceeded
    /\ Len(responses[cur.refId].frames) = 1
    /\ \E i \in 1..Len(responses[cur.refId].frames[1].fields[3].values) :
          responses[cur.refId].frames[1].fields[3].values[i] = JStr("Terminated")

\* C23: a request to /dcis without an objectId parameter, or with an empty
\* one, is answered with HTTP 400, and no remote request is issued.
C23_MissingObjectId ==
    /\ proxy.pc = "returned"
    /\ proxy.endpoint = "dcis"
    /\ (~proxy.objectId.present \/ proxy.objectId.value = "")
    => /\ proxy.response.status = 400
       /\ ~proxy.called

\* /dcis has answered a request whose objectId is present and empty.
C23_Witness ==
    /\ proxy.pc = "returned"
    /\ proxy.endpoint = "dcis"
    /\ proxy.objectId = Param("")
    /\ proxy.settings
    /\ proxy.response.status = 400

\* C29: whenever handleQuery has read the remote body, it answers its caller
\* with HTTP status 200, whatever the status code of the remote.
C29_ListStatusAlways200 ==
    ProxyAnswered => proxy.response.status = 200

\* Answers were given to remote answers of status 401, 404 and 500.
C29_Witness ==
    /\ ProxyAnswered
    /\ proxy.outcome.code \in {401, 404, 500}
    /\ proxy.outcome.body = JObj(<< <<"objects", JStr("a")>> >>)
    /\ proxy.response.status = 200

\* C24: httpStatusToBackendStatus gives every status code exactly one
\* class: 400 BadRequest, 401 Unauthorized, 403 Forbidden, 404 NotFound,
\* 500..599 Internal, every other code Unknown.
C24_StatusClasses ==
    helper.fn = "httpStatusToBackendStatus" /\ helper.called =>
        /\ helper.result \in {"BadRequest", "Unauthorized", "Forbidden", "NotFound",
                              "Internal", "Unknown"}
        /\ (helper.result = "BadRequest" <=> helper.code = 400)
        /\ (helper.result = "Unauthorized" <=> helper.code = 401)
        /\ (helper.result = "Forbidden" <=> helper.code = 403)
        /\ (helper.result = "NotFound" <=> helper.code = 404)
        /\ (helper.result = "Internal" <=> helper.code \in 500..599)
        /\ (helper.result = "Unknown" <=>
               helper.code \notin {400, 401, 403, 404} \cup (500..599))

\* The first code past the server errors was classified.
C24_Witness ==
    /\ helper.fn = "httpStatusToBackendStatus" /\ helper.called
    /\ helper.code = 600
    /\ helper.result = "Unknown"

\* Every character of str from position from to position to is a slash.
AllSlashes(str, from, to) == \A k \in from..to : str[k] = "/"

\* C25: joinURL(base, path) is base without its trailing slashes, one
\* slash, and path without its leading slashes; it is the same with one
\* more slash at the end of base or at the start of path, and exactly one
\* slash stands between the two parts.
C25_JoinURL ==
    helper.fn = "joinURL" /\ helper.called =>
        /\ \E i \in 0..Len(helper.base), j \in 0..Len(helper.path) :
              /\ AllSlashes(helper.base, i + 1, Len(helper.base))
              /\ (i > 0 => helper.base[i] # "/")
              /\ AllSlashes(helper.path, 1, j)
              /\ (j < Len(helper.path) => helper.path[j + 1] # "/")
              /\ helper.result = SubSeq(helper.base, 1, i) \o <<"/">>
                                    \o SubSeq(helper.path, j + 1, Len(helper.path))
              /\ (i > 0 => helper.result[i] # "/")
              /\ (i + 1 < Len(helper.result) => helper.result[i + 2] # "/")
        /\ joinURL(helper.base \o <<"/">>, helper.path) = helper.result
        /\ joinURL(helper.base, <<"/">> \o helper.path) = helper.result

\* A base with trailing slashes was joined to a path with a leading one.
C25_Witness ==
    /\ helper.fn = "joinURL" /\ helper.called
    /\ helper.base = <<"a", "/", "/">>
    /\ helper.path = <<"/", "b", "/">>
    /\ helper.result = <<"a", "/", "b", "/">>

\* The members of an object as a mapping from its keys.
MembersOf(obj) == [k \in {obj.m[i].k : i \in 1..Len(obj.m)} |-> MapGet(obj, k)]

\* The objectQueries query gone through last was sent, with an array of
\* key/value objects in queryParameters and integers in its two ids.
SentWithParameters ==
    /\ handler = "objectQueries" /\ cur.called
    /\ IsNonEmptyString(MapGet(cur.json, "queryParameters"))
    /\ ParseJSONText(MapGet(cur.json, "queryParameters").s).t = "arr"
    /\ \A i \in 1..Len(ParseJSONText(MapGet(cur.json, "queryParameters").s).e) :
          ParseJSONText(MapGet(cur.json, "queryParameters").s).e[i].t = "obj"
    /\ MapGet(cur.json, "sourceObjectId") = JStr("7")
    /\ MapGet(cur.json, "objectQueryId") = JStr("9")

\* C26: the request of an objectQueries query whose queryParameters holds a
\* JSON array of key/value objects carries that array in values, the same
\* elements in the same order, next to rootObjectId and queryId, the
\* integers of sourceObjectId and objectQueryId.
C26_ParametersForwarded ==
    SentWithParameters =>
        LET given == ParseJSONText(MapGet(cur.json, "queryParameters").s).e
            body == cur.request.body
        IN /\ {body.m[i].k : i \in 1..Len(body.m)} = {"queryId", "rootObjectId", "values"}
           /\ MapGet(body, "rootObjectId") = JNum(7)
           /\ MapGet(body, "queryId") = JNum(9)
           /\ MapGet(body, "values").t = "arr"
           /\ Len(MapGet(body, "values").e) = Len(given)
           /\ \A i \in 1..Len(given) :
                 MembersOf(MapGet(body, "values").e[i]) = MembersOf(given[i])

\* The alarms query gone through last has a sourceObjectId that is a
\* non-empty string and no base-10 integer; the plugin settings load.
BadRootObjectId ==
    /\ handler = "alarms" /\ settingsOk
    /\ cur.refId # ""
    /\ MapGet(cur.json, "sourceObjectId").t = "str"
    /\ MapGet(cur.json, "sourceObjectId").s \notin {"", "7", "007"}

\* C28: an alarms query whose sourceObjectId is non-empty and no base-10
\* integer gets the BadRequest result "invalid rootObjectId" and causes no
\* remote request; the handler goes on with the other queries of the batch
\* and returns only after the last of them.
C28_InvalidRootObjectId ==
    /\ BadRootObjectId =>
          /\ ~cur.called
          /\ cur.refId \in DOMAIN responses
          /\ responses[cur.refId] = ErrDataResponse("BadRequest", "invalid rootObjectId")
          /\ (calls # <<>> => calls[Len(calls)] # cur.refId)
    /\ handler = "alarms" =>
          /\ pc # "panic"
          /\ (pc = "returned" => idx = nQueries)
          /\ \A i \in 1..idx : RefID(i) \in DOMAIN responses

\* A returned batch of two alarms queries: the first was answered by the
\* remote, the second has the sourceObjectId "x".
C28_Witness ==
    /\ BadRootObjectId
    /\ pc = "returned" /\ nQueries = 2
    /\ MapGet(cur.json, "sourceObjectId").s = "x"
    /\ calls = <<RefID(1)>>
    /\ responses[RefID(1)].status = "OK"
    /\ responses[RefID(2)].msg = "invalid rootObjectId"

\* filterQuery was applied to a query of the objectQueries type.
FilteredObjectQuery ==
    /\ helper.fn = "filterQuery" /\ helper.called
    /\ helper.query.queryType = Str("objectQueries")

\* C27: filterQuery lets an objectQueries query through only if both
\* sourceObjectId and objectQueryId are set and queryParameters, when
\* given, is valid JSON.
C27_ObjectQueryFilter ==
    FilteredObjectQuery /\ helper.result =>
        /\ Truthy(helper.query.sourceObjectId)
        /\ Truthy(helper.query.objectQueryId)
        /\ (Truthy(helper.query.queryParameters) =>
               JSONParses(helper.query.queryParameters.str))

\* The editor is at rest: a type is selected, its effect has run and no
\* object-list request is outstanding.
EditorSettled ==
    /\ editor.pc = "mounted"
    /\ editor.queryType # ""
    /\ ~editor.effectPending
    /\ editor.inflight = {}

\* C30: once every outstanding object-list request has completed,
\* objectList holds the list of the selected query type, whatever the order
\* of the completions; and isLoadingObjects is false only when no
\* object-list request is outstanding.
C30_ListOfSelectedType ==
    editor.pc = "mounted" =>
        /\ (EditorSettled /\ ~editor.rejected =>
               editor.objectList = ObjectListOf(LoadArgument(editor.queryType)))
        /\ (~editor.isLoadingObjects => editor.inflight = {})

=============================================================================
